---- MODULE Spec2Model ----
(***************************************************************************)
(* Asset aggregation and valuation of the STRATO sample application        *)
(* (app.get('/') of the variant with the "Total Value" card).              *)
(*                                                                         *)
(* JavaScript strings that take part in numeric conversions are sequences  *)
(* of one-character strings.  A JavaScript Number is an IEEE-754 double:   *)
(* [k, neg, m, e] with value (-1)^neg * m * 2^e, where m is a natural      *)
(* number with 2^52 <= m < 2^53 held as its sequence of decimal digits     *)
(* (most significant first), or k = "nan".  Naturals beyond the range of   *)
(* the checker's integers are digit sequences throughout; the empty        *)
(* sequence is zero.                                                       *)
(***************************************************************************)
EXTENDS Integers, Sequences, FiniteSets

(***************************************************************************)
(* Bounds of the model.                                                    *)
(***************************************************************************)
\* Powers of two are tabulated up to 2^MaxBits.
MaxBits == 300

(***************************************************************************)
(* Natural numbers of any size, as digit sequences.                        *)
(***************************************************************************)
Max(a, b) == IF a >= b THEN a ELSE b
Min(a, b) == IF a <= b THEN a ELSE b

\* n zeros
Zeros(n) == [i \in 1..n |-> 0]

\* a digit sequence as a tuple (forces the elementwise definitions below)
Tup(x) == SubSeq(x, 1, Len(x))

\* without leading zeros
Norm(x) ==
    IF \A i \in 1..Len(x) : x[i] = 0 THEN << >>
    ELSE LET f == CHOOSE i \in 1..Len(x) : x[i] # 0 /\ \A j \in 1..(i-1) : x[j] = 0
         IN  SubSeq(x, f, Len(x))

\* x left-padded with zeros to n digits
Pad(x, n) == Zeros(n - Len(x)) \o x

Less(x, y) ==
    \/ Len(x) < Len(y)
    \/ /\ Len(x) = Len(y)
       /\ \E i \in 1..Len(x) : x[i] < y[i] /\ \A j \in 1..(i-1) : x[j] = y[j]

Leq(x, y) == ~Less(y, x)

Odd(x) == x # << >> /\ x[Len(x)] % 2 = 1

\* 2 * x: the carry into a digit depends on the next digit alone
Dbl(x) ==
    LET n == Len(x)
    IN  Norm([i \in 1..(n+1) |->
              ((2 * (IF i = 1 THEN 0 ELSE x[i-1])) % 10)
              + (IF i <= n /\ x[i] >= 5 THEN 1 ELSE 0)])

\* x div 2
Half(x) ==
    Norm([i \in 1..Len(x) |->
              (x[i] \div 2) + (IF i > 1 /\ x[i-1] % 2 = 1 THEN 5 ELSE 0)])

\* x * 2^k and x div 2^k, by halving k; the inner result is bound as a value
RECURSIVE DblN(_, _)
DblN(x, k) ==
    IF k <= 0 THEN x
    ELSE IF k = 1 THEN Dbl(x)
    ELSE CHOOSE r \in { DblN(y, k - (k \div 2)) : y \in { DblN(x, k \div 2) } } : TRUE

RECURSIVE HalfN(_, _)
HalfN(x, k) ==
    IF k <= 0 THEN x
    ELSE IF k = 1 THEN Half(x)
    ELSE CHOOSE r \in { HalfN(y, k - (k \div 2)) : y \in { HalfN(x, k \div 2) } } : TRUE

\* x + y, carries by lookahead
Add(x, y) ==
    LET n == Max(Len(x), Len(y)) + 1
        a == Pad(x, n)
        b == Pad(y, n)
        s == [i \in 1..n |-> a[i] + b[i]]
        c(i) == \E j \in (i+1)..n : s[j] >= 10 /\ \A t \in (i+1)..(j-1) : s[t] = 9
    IN  Norm([i \in 1..n |-> (s[i] + (IF c(i) THEN 1 ELSE 0)) % 10])

\* x - y for x >= y, borrows by lookahead
Sub(x, y) ==
    LET n == Len(x)
        b == Pad(y, n)
        w(i) == \E j \in (i+1)..n : x[j] < b[j] /\ \A t \in (i+1)..(j-1) : x[t] = b[t]
    IN  Norm([i \in 1..n |-> (x[i] - b[i] - (IF w(i) THEN 1 ELSE 0) + 10) % 10])

\* x * 10^p and x div 10^p
Shl10(x, p) == IF x = << >> THEN << >> ELSE x \o Zeros(p)
Shr10(x, p) == IF p >= Len(x) THEN << >> ELSE SubSeq(x, 1, Len(x) - p)

\* x * d for a digit d, from x, 2x, 4x and 8x
MulDigit4(x, d, x2, x4) ==
    Add(Add(IF d % 2 = 1 THEN x ELSE << >>,
            IF (d \div 2) % 2 = 1 THEN x2 ELSE << >>),
        Add(IF (d \div 4) % 2 = 1 THEN x4 ELSE << >>,
            IF d >= 8 THEN Dbl(x4) ELSE << >>))
MulDigit2(x, d, x2) == MulDigit4(x, d, x2, Dbl(x2))
MulDigit(x, d) == MulDigit2(x, d, Dbl(x))

\* x * y, by halving the digits of y
RECURSIVE Mul(_, _)
Mul(x, y) ==
    IF Len(y) = 0 THEN << >>
    ELSE IF Len(y) = 1 THEN MulDigit(x, y[1])
    ELSE LET h == Len(y) \div 2
         IN  Add(Shl10(Mul(x, SubSeq(y, 1, h)), Len(y) - h),
                 Mul(x, SubSeq(y, h + 1, Len(y))))

\* a small natural as a digit sequence, and back
RECURSIVE Big(_)
Big(n) == IF n = 0 THEN << >> ELSE Big(n \div 10) \o << n % 10 >>

RECURSIVE Small(_)
Small(x) == IF x = << >> THEN 0 ELSE 10 * Small(SubSeq(x, 1, Len(x) - 1)) + x[Len(x)]

\* 2^j for j in 0..MaxBits, tabulated
Pow2Seq == Tup([j \in 1..(MaxBits + 1) |-> DblN(<< 1 >>, j - 1)])
Pow2(j) == Pow2Seq[j + 1]

\* the number of bits of x: the least j with x < 2^j.  A number of L digits
\* lies in [10^(L-1), 10^L), which leaves a handful of candidates.
BitLen(x) ==
    IF x = << >> THEN 0
    ELSE CHOOSE j \in (((Len(x) - 1) * 3321) \div 1000)..(((Len(x) * 3322) \div 1000) + 1) :
             /\ Less(x, Pow2(j))
             /\ (j = 0 \/ Leq(Pow2(j - 1), x))

(***************************************************************************)
(* JavaScript Numbers: IEEE-754 doubles, round to nearest, ties to even.   *)
(* Infinities, subnormals and the sign of zero are outside the model: the  *)
(* inputs are bounded well inside the normal range.                        *)
(***************************************************************************)
TwoTo52 == Pow2(52)
TwoTo53 == Pow2(53)

NaN  == [k |-> "nan", neg |-> FALSE, m |-> << >>, e |-> 0]
Zero == [k |-> "num", neg |-> FALSE, m |-> << >>, e |-> 0]

IsNaN(v)  == v.k = "nan"
IsZero(v) == v.k = "num" /\ v.m = << >>

\* The double nearest to (-1)^neg * N * 2^b / 10^d.  N is scaled up by 2^up
\* so that the quotient X div 10^d has at least 55 bits; Q keeps its top 54
\* bits, the last of which is the rounding bit; r1 and the bits cut from q1
\* are the sticky part.
RoundPack(neg, m1, ex) ==
    IF m1 = TwoTo53
    THEN [k |-> "num", neg |-> neg, m |-> TwoTo52, e |-> ex + 1]
    ELSE [k |-> "num", neg |-> neg, m |-> m1, e |-> ex]

RoundEven(neg, ex, Q, sticky) ==
    RoundPack(neg,
              IF Odd(Q) /\ (sticky \/ Odd(Half(Q))) THEN Add(Half(Q), << 1 >>) ELSE Half(Q),
              ex)

RoundTop(neg, b, q1, r1, s, Q) == RoundEven(neg, b + s + 1, Q, r1 \/ DblN(Q, s) # q1)

RoundShift(neg, b, q1, r1, s) == RoundTop(neg, b, q1, r1, s, HalfN(q1, s))

RoundQuotient(neg, b, q1, r1) == RoundShift(neg, b, q1, r1, BitLen(q1) - 54)

RoundScaled(neg, b, d, X) ==
    RoundQuotient(neg, b, Shr10(X, d), \E i \in 1..Len(X) : i > Len(X) - d /\ X[i] # 0)

RoundUp(neg, N, b, d, up) == RoundScaled(neg, b - up, d, Mul(Pow2(up), N))

RoundToDouble(neg, N, b, d) ==
    IF N = << >> THEN Zero
    ELSE RoundUp(neg, N, b, d, Max(0, BitLen(Shl10(<< 1 >>, d)) + 55 - BitLen(N)))

\* a natural number as a double
FromNat(N) == RoundToDouble(FALSE, N, 0, 0)

\* |x| < |y| for finite x, y
MagLess(x, y) ==
    IF y.m = << >> THEN FALSE
    ELSE IF x.m = << >> THEN TRUE
    ELSE x.e < y.e \/ (x.e = y.e /\ Less(x.m, y.m))

\* x < y (false when either is NaN)
DLess(x, y) ==
    /\ ~IsNaN(x) /\ ~IsNaN(y)
    /\ IF x.neg = y.neg
       THEN IF x.neg THEN MagLess(y, x) ELSE MagLess(x, y)
       ELSE x.neg /\ ~(IsZero(x) /\ IsZero(y))

\* x + y: the magnitudes X, Y as integers over the smaller exponent lo
DAddMag(x, y, lo, X, Y) ==
    RoundToDouble(IF x.neg = y.neg \/ ~Less(X, Y) THEN x.neg ELSE y.neg,
                  IF x.neg = y.neg THEN Add(X, Y)
                  ELSE IF Less(X, Y) THEN Sub(Y, X) ELSE Sub(X, Y),
                  lo, 0)

DAddAt(x, y, lo) == DAddMag(x, y, lo, DblN(x.m, x.e - lo), DblN(y.m, y.e - lo))

DAdd(x, y) ==
    IF IsNaN(x) \/ IsNaN(y) THEN NaN
    ELSE IF IsZero(x) THEN y
    ELSE IF IsZero(y) THEN x
    ELSE DAddAt(x, y, Min(x.e, y.e))

\* x * y
DMul(x, y) ==
    IF IsNaN(x) \/ IsNaN(y) THEN NaN
    ELSE IF IsZero(x) \/ IsZero(y) THEN Zero
    ELSE RoundToDouble(x.neg # y.neg, Mul(x.m, y.m), x.e + y.e, 0)

\* x / 10^d, for the exactly representable powers of ten (d <= 22)
DDivPow10(x, d) ==
    IF IsNaN(x) THEN NaN ELSE RoundToDouble(x.neg, x.m, x.e, d)

\* the integer part of |x|, and whether |x| has a fraction
IntPart(x) == IF x.e >= 0 THEN DblN(x.m, x.e) ELSE HalfN(x.m, 0 - x.e)
IsInteger(x) == x.e >= 0 \/ DblN(HalfN(x.m, 0 - x.e), 0 - x.e) = x.m

\* Math.round: the integer nearest to x, ties towards plus infinity; I is
\* the integer part of |x| and rem the fraction, in units of 2^-k
RoundNearest(neg, I, upw) == RoundToDouble(neg, IF upw THEN Add(I, << 1 >>) ELSE I, 0, 0)

RoundFraction(neg, I, rem, half) ==
    RoundNearest(neg, I, IF neg THEN Less(half, rem) ELSE Leq(half, rem))

RoundParts(x, k, I) == RoundFraction(x.neg, I, Sub(x.m, DblN(I, k)), DblN(<< 1 >>, k - 1))

MathRound(x) ==
    IF IsNaN(x) \/ IsZero(x) \/ x.e >= 0 THEN x
    ELSE RoundParts(x, 0 - x.e, HalfN(x.m, 0 - x.e))

(***************************************************************************)
(* Conversions between strings and Numbers.                                *)
(***************************************************************************)
DigitChars == << "0", "1", "2", "3", "4", "5", "6", "7", "8", "9" >>
IsDigit(c) == \E i \in 1..10 : DigitChars[i] = c
CharVal(c) == (CHOOSE i \in 1..10 : DigitChars[i] = c) - 1

\* digit characters as a natural, and a natural as digit characters
CharsToNat(s) == Norm([i \in 1..Len(s) |-> CharVal(s[i])])
NatToChars(n) == IF n = << >> THEN << "0" >> ELSE [i \in 1..Len(n) |-> DigitChars[n[i] + 1]]

\* the number of characters of s from position i on that satisfy P
RunLen(s, i, P(_)) ==
    CHOOSE n \in 0..Max(0, Len(s) - i + 1) :
        /\ \A j \in i..(i + n - 1) : P(s[j])
        /\ (i + n > Len(s) \/ ~P(s[i + n]))

IsSpace(c) == c = " "
IsSign(c)  == c = "+" \/ c = "-"
At(s, i)   == IF i >= 1 /\ i <= Len(s) THEN s[i] ELSE ""

\* parseInt(s), radix 10: leading blanks, a sign, the longest run of digits
ParseIntDigits(s, neg, i1, n) ==
    IF n = 0 THEN NaN
    ELSE RoundToDouble(neg, CharsToNat(SubSeq(s, i1, i1 + n - 1)), 0, 0)

ParseIntFrom(s, neg, i1) == ParseIntDigits(s, neg, i1, RunLen(s, i1, IsDigit))

ParseIntSign(s, i0) ==
    ParseIntFrom(s, At(s, i0) = "-", IF IsSign(At(s, i0)) THEN i0 + 1 ELSE i0)

ParseInt(s) == ParseIntSign(s, 1 + RunLen(s, 1, IsSpace))

\* parseFloat(s): the longest prefix that is a decimal literal.  The literal
\* has ni integer digits from i1, nf fraction digits after a dot, and, from
\* i2, an exponent part that counts only when it has digits (ne of them).
ParseFloatValue(neg, N, sc) ==
    RoundToDouble(neg, IF sc >= 0 THEN Shl10(N, sc) ELSE N, 0, IF sc >= 0 THEN 0 ELSE 0 - sc)

ParseFloatScale(s, neg, i1, ni, nf, ev) ==
    ParseFloatValue(neg,
        CharsToNat(SubSeq(s, i1, i1 + ni - 1) \o SubSeq(s, i1 + ni + 1, i1 + ni + nf)),
        ev - nf)

ParseFloatExp(s, neg, i1, ni, nf, i2, i3, ne) ==
    ParseFloatScale(s, neg, i1, ni, nf,
        IF ne = 0 THEN 0
        ELSE IF At(s, i2 + 1) = "-"
        THEN 0 - Small(CharsToNat(SubSeq(s, i3, i3 + ne - 1)))
        ELSE Small(CharsToNat(SubSeq(s, i3, i3 + ne - 1))))

ParseFloatMark(s, neg, i1, ni, nf, i2, i3) ==
    ParseFloatExp(s, neg, i1, ni, nf, i2, i3,
        IF At(s, i2) = "e" \/ At(s, i2) = "E" THEN RunLen(s, i3, IsDigit) ELSE 0)

ParseFloatTail(s, neg, i1, ni, nf, i2) ==
    ParseFloatMark(s, neg, i1, ni, nf, i2,
        IF IsSign(At(s, i2 + 1)) THEN i2 + 2 ELSE i2 + 1)

ParseFloatFraction(s, neg, i1, ni, nf) ==
    IF ni = 0 /\ nf = 0 THEN NaN
    ELSE ParseFloatTail(s, neg, i1, ni, nf,
             i1 + ni + (IF At(s, i1 + ni) = "." THEN 1 + nf ELSE 0))

ParseFloatDigits(s, neg, i1, ni) ==
    ParseFloatFraction(s, neg, i1, ni,
        IF At(s, i1 + ni) = "." THEN RunLen(s, i1 + ni + 1, IsDigit) ELSE 0)

ParseFloatFrom(s, neg, i1) == ParseFloatDigits(s, neg, i1, RunLen(s, i1, IsDigit))

ParseFloatSign(s, i0) ==
    ParseFloatFrom(s, At(s, i0) = "-", IF IsSign(At(s, i0)) THEN i0 + 1 ELSE i0)

ParseFloat(s) == ParseFloatSign(s, 1 + RunLen(s, 1, IsSpace))

\* The shortest decimal that reads back as v (v finite, not zero): digits ds
\* and position n with |v| = 0.ds * 10^n.  lo and hi are the ends of the
\* interval of reals that round to v, scaled with v to integers (by 2^e2, or
\* by 5^g when e2 = -g is negative); the digits are the multiple of 10^p,
\* p the largest with such a multiple inside the interval, nearest to v.
ScaleExp(a, e2) == IF e2 >= 0 THEN DblN(a, e2) ELSE HalfN(Shl10(a, 0 - e2), 0 - e2)

RoundDown10(a, p) == Shl10(Shr10(a, p), p)

ShortestDigits(ds, p, g) == [ds |-> ds, n |-> Len(ds) + p - g]

ShortestPick(Lv, lo, hi, p, g, c1, c2, r2, w) ==
    ShortestDigits(
        Shr10(IF ~Leq(c2, hi) THEN c1
              ELSE IF ~Leq(lo, c1) THEN c2
              ELSE IF Less(r2, w) THEN c1
              ELSE IF Less(w, r2) THEN c2
              ELSE IF Odd(Shr10(c1, p)) THEN c2 ELSE c1, p),
        p, g)

ShortestNear(Lv, lo, hi, p, g, c1) ==
    ShortestPick(Lv, lo, hi, p, g, c1, Add(c1, Shl10(<< 1 >>, p)),
                 Dbl(Sub(Lv, c1)), Shl10(<< 1 >>, p))

ShortestAt(Lv, lo, hi, p, g) == ShortestNear(Lv, lo, hi, p, g, RoundDown10(Lv, p))

ShortestIn(Lv, lo, hi, g) ==
    ShortestAt(Lv, lo, hi,
        CHOOSE q \in 0..Len(hi) :
            Leq(lo, RoundDown10(hi, q)) /\ ~Leq(lo, RoundDown10(hi, q + 1)),
        g)

ShortestEnds(v, A4, e2) ==
    ShortestIn(ScaleExp(A4, e2),
        Add(ScaleExp(Sub(A4, IF v.m = TwoTo52 THEN << 1 >> ELSE << 2 >>), e2),
            IF Odd(v.m) THEN << 1 >> ELSE << >>),
        Sub(ScaleExp(Add(A4, << 2 >>), e2),
            IF Odd(v.m) THEN << 1 >> ELSE << >>),
        IF e2 >= 0 THEN 0 ELSE 0 - e2)

Shortest(v) == ShortestEnds(v, DblN(v.m, 2), v.e - 2)

\* Number.prototype.toString, radix 10, from the digits d and the position n
NumberExponent(ee) ==
    << "e", IF ee >= 0 THEN "+" ELSE "-" >> \o NatToChars(Big(IF ee >= 0 THEN ee ELSE 0 - ee))

NumberFormat(neg, d, n) ==
    (IF neg THEN << "-" >> ELSE << >>) \o
    (IF Len(d) <= n /\ n <= 21 THEN d \o [i \in 1..(n - Len(d)) |-> "0"]
     ELSE IF 0 < n /\ n <= 21 THEN SubSeq(d, 1, n) \o << "." >> \o SubSeq(d, n + 1, Len(d))
     ELSE IF -6 < n /\ n <= 0 THEN << "0", "." >> \o [i \in 1..(0 - n) |-> "0"] \o d
     ELSE IF Len(d) = 1 THEN d \o NumberExponent(n - 1)
     ELSE << d[1], "." >> \o SubSeq(d, 2, Len(d)) \o NumberExponent(n - 1))

NumberOfShortest(neg, sh) == NumberFormat(neg, NatToChars(sh.ds), sh.n)

NumberToString(v) ==
    IF IsNaN(v) THEN << "N", "a", "N" >>
    ELSE IF IsZero(v) THEN << "0" >>
    ELSE NumberOfShortest(v.neg, Shortest(v))

\* toLocaleString(undefined, {minimumFractionDigits, maximumFractionDigits}):
\* the shortest decimal of v rounded half up to maxF fraction digits, with
\* at least minF of them.  Group separators, which depend on the locale of
\* the host, are left out.  full is the value as a count of 10^-f.
DigitText(x) == [i \in 1..Len(x) |-> DigitChars[x[i] + 1]]

LocaleText(neg, ip, fp, fr, fl) ==
    (IF neg THEN << "-" >> ELSE << >>) \o DigitText(ip)
        \o (IF fl > 0
            THEN << "." >> \o DigitText(SubSeq(fp, 1, Min(fl, fr)) \o Zeros(fl - Min(fl, fr)))
            ELSE << >>)

LocaleDigits(neg, ip, fp, fr, minF) ==
    LocaleText(neg, ip, fp, fr,
        Max(minF, CHOOSE j \in 0..fr :
                      /\ \A i \in (j + 1)..fr : fp[i] = 0
                      /\ (j = 0 \/ fp[j] # 0)))

LocalePadded(neg, P, fr, minF) ==
    LocaleDigits(neg, SubSeq(P, 1, Len(P) - fr), SubSeq(P, Len(P) - fr + 1, Len(P)),
                 fr, minF)

LocaleRounded(neg, R, fr, minF) == LocalePadded(neg, Pad(R, Max(Len(R), fr + 1)), fr, minF)

LocaleCut(neg, full, f, cut, minF) ==
    LocaleRounded(neg,
        IF cut > 0 /\ cut <= Len(full) /\ full[Len(full) - cut + 1] >= 5
        THEN Add(Shr10(full, cut), << 1 >>) ELSE Shr10(full, cut),
        f - cut, minF)

LocaleOfShortest(neg, ds, n, minF, maxF) ==
    LocaleCut(neg, IF n > Len(ds) THEN Shl10(ds, n - Len(ds)) ELSE ds,
              Max(0, Len(ds) - n), Max(0, Max(0, Len(ds) - n) - maxF), minF)

LocaleOfRecord(neg, sh, minF, maxF) == LocaleOfShortest(neg, sh.ds, sh.n, minF, maxF)

ToLocaleString(v, minF, maxF) ==
    IF IsNaN(v) THEN << "N", "a", "N" >>
    ELSE LocaleOfRecord(v.neg, IF IsZero(v) THEN [ds |-> << >>, n |-> 0] ELSE Shortest(v),
                        minF, maxF)

(***************************************************************************)
(* Values of the application.  A name or id is a string, "" when absent.   *)
(* A quantity or price is a sequence of characters, empty when absent.     *)
(* A decimals value is tagged: a number, undefined, null, or (as the       *)
(* result of a lookup that finds an inherited member) a function.          *)
(***************************************************************************)
Num(n)    == [t |-> "num", v |-> n]
Undefined == [t |-> "undef", v |-> 0]
Null      == [t |-> "null", v |-> 0]
Function  == [t |-> "fn", v |-> 0]

\* the members every object inherits from Object.prototype
ObjectPrototypeKeys ==
    { "constructor", "toString", "toLocaleString", "valueOf", "hasOwnProperty",
      "isPrototypeOf", "propertyIsEnumerable", "__proto__",
      "__defineGetter__", "__defineSetter__", "__lookupGetter__", "__lookupSetter__" }

\* obj[key] = val on an object held as a function from its own keys; the
\* values assigned are strings, and assigning a string to "__proto__" goes
\* to the inherited setter, which ignores it: no own key is made
Put(obj, key, val) ==
    IF key = "__proto__" THEN obj
    ELSE [q \in (DOMAIN obj) \cup { key } |-> IF q = key THEN val ELSE obj[q]]

\* latestPrices[key]: the price, empty (falsy) when the key is not set
PriceOf(obj, key) == IF key \in DOMAIN obj THEN obj[key] ELSE << >>

EmptyObject == [q \in {} |-> << >>]

(***************************************************************************)
(* getOracleValues: the latest price per name, then the fixed mappings.    *)
(***************************************************************************)
\* one turn of data.forEach: a later entry overwrites an earlier one
ReduceObservation(prices, oracle) ==
    IF oracle.name # "" /\ oracle.consensusPrice # << >>
    THEN Put(prices, oracle.name, oracle.consensusPrice)
    ELSE prices

Silver100oz == "Silver - Fractional 100 oz Bars"

\* "if (p) latestPrices[target] = p"
PutIf(obj, key, val) == IF val # << >> THEN Put(obj, key, val) ELSE obj

\* the mappings as they would be if a mapping only filled a symbol that has
\* no price yet
PutAbsent(obj, key, val) == IF key \in DOMAIN obj THEN obj ELSE PutIf(obj, key, val)

ApplyPriceMappingsFillOnly(prices) ==
    LET p1 == PutAbsent(prices, "ETHST", PriceOf(prices, "ETH"))
        p2 == PutAbsent(p1, "PAXGST", PriceOf(prices, "Gold"))
        p3 == PutAbsent(p2, Silver100oz, PriceOf(prices, "Silver"))
        p4 == PutAbsent(p3, "STRAT", << "1" >>)
        p5 == PutAbsent(p4, "USDCST", << "1" >>)
        p6 == PutAbsent(p5, "USDST", << "1" >>)
        p7 == PutAbsent(p6, "USDTST", << "1" >>)
    IN  PutAbsent(p7, "WBTCST", PriceOf(prices, "BTC"))

\* the mappings as they would be if the four fixed prices were set only
\* next to the ETH mapping
ApplyPriceMappingsPinWithEth(prices) ==
    LET ethPrice == PriceOf(prices, "ETH")
        p1 == PutIf(prices, "ETHST", ethPrice)
        p2 == PutIf(p1, "PAXGST", PriceOf(prices, "Gold"))
        p3 == PutIf(p2, Silver100oz, PriceOf(prices, "Silver"))
        p4 == IF ethPrice # << >> THEN Put(p3, "STRAT", << "1" >>) ELSE p3
        p5 == IF ethPrice # << >> THEN Put(p4, "USDCST", << "1" >>) ELSE p4
        p6 == IF ethPrice # << >> THEN Put(p5, "USDST", << "1" >>) ELSE p5
        p7 == IF ethPrice # << >> THEN Put(p6, "USDTST", << "1" >>) ELSE p6
    IN  PutIf(p7, "WBTCST", PriceOf(prices, "BTC"))

\* the mappings as they would be with the four fixed prices alone (the
\* pass-through mappings left out)
ApplyPriceMappingsNoAlias(prices) ==
    Put(Put(Put(Put(prices, "STRAT", << "1" >>), "USDCST", << "1" >>),
            "USDST", << "1" >>), "USDTST", << "1" >>)

\* the mappings as they would be if the rules chained: WBTCST, with no BTC
\* price to take, given the price the ETH rule has just written for ETHST
ApplyPriceMappingsChained(prices) ==
    LET p1 == PutIf(prices, "ETHST", PriceOf(prices, "ETH"))
        p2 == PutIf(p1, "PAXGST", PriceOf(prices, "Gold"))
        p3 == PutIf(p2, Silver100oz, PriceOf(prices, "Silver"))
        p7 == ApplyPriceMappingsNoAlias(p3)
    IN  PutIf(p7, "WBTCST", IF PriceOf(prices, "BTC") # << >>
                            THEN PriceOf(prices, "BTC")
                            ELSE PriceOf(p7, "ETHST"))

\* the hard-coded price mappings, in the order of the code
ApplyPriceMappings(prices) ==
    LET ethPrice    == PriceOf(prices, "ETH")
        btcPrice    == PriceOf(prices, "BTC")
        goldPrice   == PriceOf(prices, "Gold")
        silverPrice == PriceOf(prices, "Silver")
        p1 == PutIf(prices, "ETHST", ethPrice)
        p2 == PutIf(p1, "PAXGST", goldPrice)
        p3 == PutIf(p2, Silver100oz, silverPrice)
        p4 == Put(p3, "STRAT", << "1" >>)
        p5 == Put(p4, "USDCST", << "1" >>)
        p6 == Put(p5, "USDST", << "1" >>)
        p7 == Put(p6, "USDTST", << "1" >>)
    IN  PutIf(p7, "WBTCST", btcPrice)

(***************************************************************************)
(* getDecimalsForAsset and calculateActualValue.                           *)
(***************************************************************************)
\* The members that requests served so far have added to Object.prototype.
\* It is the one object every plain object of the process inherits from, so
\* what the grouping loop writes through assetGroups['__proto__'] (see
\* PrototypeWrites) is seen by every later "in" test.
VARIABLE objectPrototypeAdded

\* the number NaN held as a decimals value
NotANumber == [t |-> "nan", v |-> 0]

knownDecimals == [q \in { "CATA", "ETHST", "STRAT" } |->
                     CASE q = "CATA" -> 18 [] q = "ETHST" -> 18 [] q = "STRAT" -> 4]

\* "assetName in knownDecimals" follows the prototype chain
InKnownDecimals(assetName) ==
    \/ assetName \in DOMAIN knownDecimals
    \/ assetName \in ObjectPrototypeKeys
    \/ assetName \in objectPrototypeAdded

getDecimalsForAsset(assetName, originalDecimals) ==
    IF InKnownDecimals(assetName)
    THEN IF assetName \in DOMAIN knownDecimals
         THEN Num(knownDecimals[assetName])
         ELSE IF assetName \in objectPrototypeAdded THEN NotANumber
         ELSE Function
    ELSE originalDecimals

\* "decimals !== undefined && decimals !== null"
HasDecimals(decimals) == decimals.t # "undef" /\ decimals.t # "null"

\* the digits of quantityStr with the decimal point placed `decimals` from
\* the right; with decimals NaN (parseInt of a function) both comparisons
\* fail and the point lands in front of the string
PlacePoint(quantityStr, decimals) ==
    IF decimals.t # "num" THEN << "." >> \o quantityStr
    ELSE IF Len(quantityStr) <= decimals.v
    THEN << "0", "." >> \o [i \in 1..(decimals.v - Len(quantityStr)) |-> "0"] \o quantityStr
    ELSE LET insertPosition == Len(quantityStr) - decimals.v
         IN  SubSeq(quantityStr, 1, insertPosition) \o << "." >>
                 \o SubSeq(quantityStr, insertPosition + 1, Len(quantityStr))

\* the number calculateActualValue formats: by digit placement above 15
\* decimals, by division otherwise (Math.pow(10, null) is 1, and NaN for
\* undefined or a function)
ScaledQuantity(quantity, decimals) ==
    IF decimals.t = "num" /\ decimals.v > 15
    THEN ParseFloat(PlacePoint(NumberToString(quantity), decimals))
    ELSE IF decimals.t = "num" THEN DDivPow10(quantity, decimals.v)
    ELSE IF decimals.t = "null" THEN quantity
    ELSE NaN

calculateActualValue(quantity, decimals) ==
    ToLocaleString(ScaledQuantity(quantity, decimals), 2, 6)

\* "Calculate actual quantity as a number with full precision"
ActualQuantity(asset) ==
    IF HasDecimals(asset.decimals)
    THEN ParseFloat(PlacePoint(NumberToString(asset.totalQuantity), asset.decimals))
    ELSE asset.totalQuantity

\* the quantity shown in the asset header
QuantityDisplay(asset) ==
    IF HasDecimals(asset.decimals)
    THEN calculateActualValue(asset.totalQuantity, asset.decimals)
    ELSE NumberToString(asset.totalQuantity)

(***************************************************************************)
(* The grouping loop of the route handler.                                 *)
(***************************************************************************)
\* the key as it would be if the id were preferred to the name
GroupNameIdFirst(asset) ==
    IF asset.id # "" THEN asset.id
    ELSE IF asset.name # "" THEN asset.name ELSE "Unnamed Asset"

\* asset.name || asset.id || 'Unnamed Asset'
GroupName(asset) ==
    IF asset.name # "" THEN asset.name
    ELSE IF asset.id # "" THEN asset.id ELSE "Unnamed Asset"

\* parseInt(asset.quantity) || 0
QuantityOf(asset) ==
    LET parsed == ParseInt(asset.quantity)
    IN  IF IsNaN(parsed) \/ IsZero(parsed) THEN Zero ELSE parsed

\* the lookup as it would be if only the group created last were found
GroupIndexLast(groups, name) ==
    IF groups # << >> /\ groups[Len(groups)].name = name THEN Len(groups) ELSE 0

GroupIndex(groups, name) ==
    IF \E i \in 1..Len(groups) : groups[i].name = name
    THEN CHOOSE i \in 1..Len(groups) : groups[i].name = name
    ELSE 0

\* the update as it would be if the decimals were resolved again for every
\* record of the key
GroupAddResolving(held, asset) ==
    [held EXCEPT !.totalQuantity = DAdd(@, QuantityOf(asset)),
                 !.tokenCount = @ + 1,
                 !.decimals = getDecimalsForAsset(held.name, asset.decimals),
                 !.tokens = Append(@, asset)]

\* One turn of assetData.forEach.  assetGroups is a plain object, so for a
\* name that Object.prototype defines, assetGroups[name] is the inherited
\* member: no group is created and ".tokens.push" throws a TypeError.
GroupAdd(held, asset) ==
    [held EXCEPT !.totalQuantity = DAdd(@, QuantityOf(asset)),
                 !.tokenCount = @ + 1,
                 !.tokens = Append(@, asset)]

\* the new group as it would be if it were created already counting its
\* first record
GroupNewCountsFirst(name, asset) ==
    [name |-> name, totalQuantity |-> Zero, tokenCount |-> 1,
     decimals |-> getDecimalsForAsset(name, asset.decimals), tokens |-> << >>]

GroupNew(name, asset) ==
    [name |-> name, totalQuantity |-> Zero, tokenCount |-> 0,
     decimals |-> getDecimalsForAsset(name, asset.decimals), tokens |-> << >>]

GroupAt(acc, asset, name, at) ==
    IF acc.thrown THEN acc
    ELSE IF name \in ObjectPrototypeKeys THEN [acc EXCEPT !.thrown = TRUE]
    ELSE [acc EXCEPT !.groups =
              IF at = 0 THEN Append(@, GroupAdd(GroupNew(name, asset), asset))
              ELSE [@ EXCEPT ![at] = GroupAdd(@, asset)]]

GroupStep(acc, asset) ==
    GroupAt(acc, asset, GroupName(asset), GroupIndex(acc.groups, GroupName(asset)))

RECURSIVE GroupAssets(_, _)
GroupAssets(data, n) ==
    IF n = 0 THEN [groups |-> << >>, thrown |-> FALSE]
    ELSE GroupStep(GroupAssets(data, n - 1), data[n])

\* What the loop leaves on Object.prototype.  For the key "__proto__",
\* assetGroups[name] is Object.prototype itself: "+=" on totalQuantity and
\* on tokenCount each create the member there (as NaN) before ".tokens.push"
\* throws.  For the other inherited keys the writes land on a function.
PrototypeWrites(data) ==
    IF \E i \in 1..Len(data) :
           GroupName(data[i]) = "__proto__" /\ ~GroupAssets(data, i - 1).thrown
    THEN { "totalQuantity", "tokenCount" }
    ELSE {}

(***************************************************************************)
(* a.name.localeCompare(b.name): the collation order of the names that     *)
(* occur, case-insensitive at the first level, a space before any letter.  *)
(***************************************************************************)
LocaleOrder ==
    << "a1", "BTC", "CATA", "ETH", "ETHST", "Gold", "PAXGST", "Silver",
       Silver100oz, "STKN", "STRAT", "tokenCount", "totalQuantity",
       "Unnamed Asset", "USDCST", "USDST", "USDTST", "WBTCST" >>

LocaleRank(name) == CHOOSE i \in 1..Len(LocaleOrder) : LocaleOrder[i] = name

localeCompare(a, b) ==
    IF LocaleRank(a) < LocaleRank(b) THEN -1
    ELSE IF LocaleRank(a) > LocaleRank(b) THEN 1 ELSE 0

\* the array as it would be without the sort: the groups in creation order
SortByNameUnsorted(groups) == groups

\* Object.values(assetGroups).sort(...): the keys are distinct names
SortByName(groups) ==
    LET before(g) == { h \in 1..Len(groups) :
                          localeCompare(groups[h].name, groups[g].name) < 0 }
    IN  [j \in 1..Len(groups) |->
            groups[CHOOSE g \in 1..Len(groups) : Cardinality(before(g)) = j - 1]]

(***************************************************************************)
(* The "Total Value" card and the "Asset Breakdown" card of the page.      *)
(***************************************************************************)
\* actualQuantity * parseFloat(price)
TotalValue(asset, price) == DMul(ActualQuantity(asset), ParseFloat(price))

NoSummary ==
    [fungibleTokensCount |-> 0, fungibleTokensValue |-> Zero,
     nonFungibleTokensCount |-> 0, cataTokensCount |-> 0, totalCataTokens |-> Zero]

\* one turn of the two sortedAssets.forEach loops of the card; in both
\* branches actualQuantity is the placed quantity of the group
\* the turn as it would be if the price were tested before the name
SummaryAddPriceFirst(acc, asset, price, actualQuantity) ==
    IF price # << >>
    THEN [acc EXCEPT !.fungibleTokensCount = @ + asset.tokenCount,
                     !.fungibleTokensValue = DAdd(@, DMul(actualQuantity, ParseFloat(price)))]
    ELSE IF asset.name = "CATA"
    THEN [acc EXCEPT !.cataTokensCount = @ + asset.tokenCount,
                     !.totalCataTokens =
                         IF IsNaN(actualQuantity) \/ IsZero(actualQuantity)
                         THEN @ ELSE DAdd(@, actualQuantity)]
    ELSE [acc EXCEPT !.nonFungibleTokensCount = @ + asset.tokenCount]

SummaryAdd(acc, asset, price, actualQuantity) ==
    IF asset.name = "CATA"
    THEN [acc EXCEPT !.cataTokensCount = @ + asset.tokenCount,
                     !.totalCataTokens =
                         IF IsNaN(actualQuantity) \/ IsZero(actualQuantity)
                         THEN @ ELSE DAdd(@, actualQuantity)]
    ELSE IF price # << >>
    THEN [acc EXCEPT !.fungibleTokensCount = @ + asset.tokenCount,
                     !.fungibleTokensValue = DAdd(@, DMul(actualQuantity, ParseFloat(price)))]
    ELSE [acc EXCEPT !.nonFungibleTokensCount = @ + asset.tokenCount]

SummaryStep(acc, asset, prices) ==
    SummaryAdd(acc, asset, PriceOf(prices, asset.name), ActualQuantity(asset))

RECURSIVE SummaryLoop(_, _, _)
SummaryLoop(sorted, n, prices) ==
    IF n = 0 THEN NoSummary
    ELSE SummaryStep(SummaryLoop(sorted, n - 1, prices), sorted[n], prices)

\* the figures the card shows
SummaryCard(total) ==
    [fungibleTokensCount    |-> total.fungibleTokensCount,
     fungibleTokensValue    |-> total.fungibleTokensValue,
     formattedValue         |-> ToLocaleString(total.fungibleTokensValue, 2, 2),
     nonFungibleTokensCount |-> total.nonFungibleTokensCount,
     cataTokensCount        |-> total.cataTokensCount,
     totalCataTokens        |-> ToLocaleString(total.totalCataTokens, 2, 6)]

Summarise(sorted, prices) == SummaryCard(SummaryLoop(sorted, Len(sorted), prices))

\* the text as it would be without the special handling of small values
WorthOfRounded(totalValue) ==
    ToLocaleString(DDivPow10(MathRound(DMul(totalValue, FromNat(<< 1, 0, 0 >>))), 2), 2, 2)

\* the text after "worth $" in an asset header
WorthOf(totalValue) ==
    IF DLess(Zero, totalValue) /\ DLess(totalValue, ParseFloat(<< "0", ".", "0", "1" >>))
    THEN << "0", ".", "0", "1" >>
    ELSE ToLocaleString(
             DDivPow10(MathRound(DMul(totalValue, FromNat(<< 1, 0, 0 >>))), 2), 2, 2)

Worth(asset, price) == WorthOf(TotalValue(asset, price))

\* one asset header of the breakdown
AssetHeader(asset, prices) ==
    LET price == PriceOf(prices, asset.name)
    IN  [name            |-> asset.name,
         quantityDisplay |-> QuantityDisplay(asset),
         tokenCount      |-> asset.tokenCount,
         hasWorth        |-> price # << >>,
         worth           |-> IF price # << >> THEN Worth(asset, price) ELSE << >>]

(***************************************************************************)
(* The request as a state machine: the two upstream reads are awaited in   *)
(* turn, then the handler groups, sorts and renders in one synchronous run. *)
(***************************************************************************)
VARIABLES dbAssets, dbOracle, pc, assetResult, assetData, oracleResult,
          latestPrices, status, sortedAssets, summary, assetRows, resolved,
          fetchesOutstanding, servedLog, requestsServed

\* the token cache and the requests of the API client (see getUserToken)
VARIABLES CACHED_DATA, clockNow, tokenCallers, oauthIssued, refreshesDone,
          upstreamSent

\* the session of the OAuth sample application (see the callback route)
VARIABLES sessionUser, sessionToken, tokenCookie, callbackAt, lastReply

tokenVars == << CACHED_DATA, clockNow, tokenCallers, oauthIssued, refreshesDone,
                upstreamSent >>

sessionVars == << sessionUser, sessionToken, tokenCookie, callbackAt, lastReply >>

vars == << dbAssets, dbOracle, pc, assetResult, assetData, oracleResult,
           latestPrices, status, sortedAssets, summary, assetRows, resolved,
           fetchesOutstanding, servedLog, requestsServed, objectPrototypeAdded,
           tokenVars, sessionVars >>

(***************************************************************************)
(* getUserToken and the request interceptor of the API client.  Each       *)
(* caller is one request the client is asked to send; the clock is         *)
(* Date.now() in milliseconds.                                             *)
(***************************************************************************)
MaxCallers == 2        \* requests of the API client in flight together

Callers == 1..MaxCallers

TOKEN_LIFETIME_RESERVE_SECONDS == 120

\* const cacheKey = clientId
cacheKey == "clientId"

\* const CACHED_DATA = {}
EmptyCache == [q \in {} |-> [token |-> "", expiresAt |-> 0]]

\* the instants at which the clock is read, and what the server grants
ClockValues == { 0, 500, 1000, 2000 }

Lifetimes == { 121000, 121500, 300000 }

\* the tokens the OAuth server hands out, in order of issue
TokenNames == << "t1", "t2", "t3", "t4" >>

\* the reply of getAccessTokenByClientSecret; a reply that lacks the token
\* field gives a token that is undefined (falsy, held as "")
TokenObj(token, expires_at) ==
    [token |-> [access_token |-> token, expires_at |-> expires_at]]

NoReply == TokenObj("", 0)

\* Math.floor(ms / 1000)
FloorSeconds(ms) == ms \div 1000

\* the condition as it would be if a token with exactly the reserve left
\* were still served
HasValidTokenAtReserve(cache, currentTime) ==
    /\ cacheKey \in DOMAIN cache
    /\ cache[cacheKey].token # ""
    /\ cache[cacheKey].expiresAt >= currentTime + TOKEN_LIFETIME_RESERVE_SECONDS

\* userTokenData && userTokenData.token &&
\* userTokenData.expiresAt > currentTime + TOKEN_LIFETIME_RESERVE_SECONDS
HasValidToken(cache, currentTime) ==
    /\ cacheKey \in DOMAIN cache
    /\ cache[cacheKey].token # ""
    /\ cache[cacheKey].expiresAt > currentTime + TOKEN_LIFETIME_RESERVE_SECONDS

\* { token, expiresAt } as built from a reply
TokenData(tokenObj) ==
    [token |-> tokenObj.token.access_token,
     expiresAt |-> FloorSeconds(tokenObj.token.expires_at)]

\* the store as it would be if token and expiry were kept apart and an
\* expiry were only ever moved forward
StoreTokenLatestExpiry(cache, tokenObj) ==
    [q \in { cacheKey } |->
        [token |-> tokenObj.token.access_token,
         expiresAt |-> IF cacheKey \in DOMAIN cache
                          /\ cache[cacheKey].expiresAt
                                 > FloorSeconds(tokenObj.token.expires_at)
                       THEN cache[cacheKey].expiresAt
                       ELSE FloorSeconds(tokenObj.token.expires_at)]]

\* CACHED_DATA[cacheKey] = { token, expiresAt }: one assignment of one object
StoreToken(cache, tokenObj) == [q \in { cacheKey } |-> TokenData(tokenObj)]

\* `Bearer ${token}`
AuthorizationHeader(token) == "Bearer " \o token

IdleCaller ==
    [at |-> "idle", currentTime |-> 0, fromCache |-> FALSE, reply |-> NoReply,
     token |-> "", error |-> "", left |-> 0]

TokenIdle ==
    /\ CACHED_DATA = EmptyCache
    /\ clockNow = 0
    /\ tokenCallers = [c \in Callers |-> IdleCaller]
    /\ oauthIssued = 0
    /\ refreshesDone = {}
    /\ upstreamSent = {}

\* everything but the token cache and its callers
requestVars == << dbAssets, dbOracle, pc, assetResult, assetData, oracleResult,
                  latestPrices, status, sortedAssets, summary, assetRows, resolved,
                  fetchesOutstanding, servedLog, requestsServed,
                  objectPrototypeAdded >>

\* time passes
Tick ==
    /\ \E later \in ClockValues : later > clockNow /\ clockNow' = later
    /\ UNCHANGED << CACHED_DATA, tokenCallers, oauthIssued, refreshesDone,
                    upstreamSent, requestVars, sessionVars >>

\* The interceptor calls getUserToken, which runs to its first await: a
\* valid cached token is returned at once, otherwise oauthUtil.init is
\* awaited.  `left` keeps the milliseconds the served entry still had.
CallGetUserToken(c) ==
    /\ tokenCallers[c].at = "idle"
    /\ tokenCallers' = [tokenCallers EXCEPT ![c] =
           IF HasValidToken(CACHED_DATA, FloorSeconds(clockNow))
           THEN [@ EXCEPT !.at = "returned",
                          !.currentTime = FloorSeconds(clockNow),
                          !.fromCache = TRUE,
                          !.token = CACHED_DATA[cacheKey].token,
                          !.left = CACHED_DATA[cacheKey].expiresAt * 1000 - clockNow]
           ELSE [@ EXCEPT !.at = "init",
                          !.currentTime = FloorSeconds(clockNow)]]
    /\ UNCHANGED << CACHED_DATA, clockNow, oauthIssued, refreshesDone,
                    upstreamSent, requestVars, sessionVars >>

\* oauthUtil.init resolves: the token request goes out
OAuthInitOk(c) ==
    /\ tokenCallers[c].at = "init"
    /\ tokenCallers' = [tokenCallers EXCEPT ![c].at = "token"]
    /\ UNCHANGED << CACHED_DATA, clockNow, oauthIssued, refreshesDone,
                    upstreamSent, requestVars, sessionVars >>

\* the failure as it would be if the catch also dropped the cached entry
RefreshFailsClearing(c) ==
    /\ tokenCallers[c].at \in { "init", "token", "reply" }
    /\ tokenCallers' = [tokenCallers EXCEPT
           ![c].at = "threw",
           ![c].error = "Failed to fetch user OAuth token"]
    /\ CACHED_DATA' = EmptyCache
    /\ UNCHANGED << clockNow, oauthIssued, refreshesDone,
                    upstreamSent, requestVars, sessionVars >>

\* oauthUtil.init or the token request rejects, or the reply cannot be
\* read: the catch logs and throws the fixed error
RefreshFails(c) ==
    /\ tokenCallers[c].at \in { "init", "token", "reply" }
    /\ tokenCallers' = [tokenCallers EXCEPT
           ![c].at = "threw",
           ![c].error = "Failed to fetch user OAuth token"]
    /\ UNCHANGED << CACHED_DATA, clockNow, oauthIssued, refreshesDone,
                    upstreamSent, requestVars, sessionVars >>

\* the OAuth server answers the token request; the reply is on its way
OAuthIssues(c) ==
    /\ tokenCallers[c].at = "token"
    /\ \E lifetime \in Lifetimes, named \in BOOLEAN :
           tokenCallers' = [tokenCallers EXCEPT
               ![c].at = "reply",
               ![c].reply = TokenObj(IF named THEN TokenNames[oauthIssued + 1] ELSE "",
                                     clockNow + lifetime)]
    /\ oauthIssued' = oauthIssued + 1
    /\ UNCHANGED << CACHED_DATA, clockNow, refreshesDone,
                    upstreamSent, requestVars, sessionVars >>

\* the reply arrives: the entry is stored and the token returned
RefreshCompletes(c) ==
    /\ tokenCallers[c].at = "reply"
    /\ CACHED_DATA' = StoreToken(CACHED_DATA, tokenCallers[c].reply)
    /\ refreshesDone' = refreshesDone \cup { TokenData(tokenCallers[c].reply) }
    /\ tokenCallers' = [tokenCallers EXCEPT
           ![c].at = "returned",
           ![c].token = tokenCallers[c].reply.token.access_token]
    /\ UNCHANGED << clockNow, oauthIssued, upstreamSent, requestVars, sessionVars >>

\* the interceptor resolves with the header set: the request is sent
SendRequest(c) ==
    /\ tokenCallers[c].at = "returned"
    /\ tokenCallers' = [tokenCallers EXCEPT ![c].at = "sent"]
    /\ upstreamSent' = upstreamSent \cup
           { [caller |-> c, Authorization |-> AuthorizationHeader(tokenCallers[c].token)] }
    /\ UNCHANGED << CACHED_DATA, clockNow, oauthIssued, refreshesDone,
                    requestVars, sessionVars >>

\* the interceptor as it would be if it let the request go without a header
RejectRequestSendsBare(c) ==
    /\ tokenCallers[c].at = "threw"
    /\ tokenCallers' = [tokenCallers EXCEPT ![c].at = "sent"]
    /\ upstreamSent' = upstreamSent \cup { [caller |-> c, Authorization |-> ""] }
    /\ UNCHANGED << CACHED_DATA, clockNow, oauthIssued, refreshesDone,
                    requestVars, sessionVars >>

\* the interceptor's catch: Promise.reject(error), nothing is sent
RejectRequest(c) ==
    /\ tokenCallers[c].at = "threw"
    /\ tokenCallers' = [tokenCallers EXCEPT ![c].at = "rejected"]
    /\ UNCHANGED << CACHED_DATA, clockNow, oauthIssued, refreshesDone,
                    upstreamSent, requestVars, sessionVars >>

NextToken ==
    \/ Tick
    \/ \E c \in Callers : CallGetUserToken(c)
    \/ \E c \in Callers : OAuthInitOk(c)
    \/ \E c \in Callers : RefreshFails(c)
    \/ \E c \in Callers : OAuthIssues(c)
    \/ \E c \in Callers : RefreshCompletes(c)
    \/ \E c \in Callers : SendRequest(c)
    \/ \E c \in Callers : RejectRequest(c)

(***************************************************************************)
(* The OAuth sample application: one browser session, its token cookie,    *)
(* and the routes it is served by.                                         *)
(***************************************************************************)
MaxSessionRequests == 4    \* requests one session makes

\* what session.user, session.token and the cookie hold when unset
Unset == ""

\* codes of the authorization server, access tokens, blockchain users
AccessTokens == { "a1", "a2" }

Users == { "0xU1", "0xU2" }

NoCallback == [at |-> "idle", accessToken |-> Unset]

\* the reply a request got; `serial` counts the replies of the session
Reply(serial, route, code, body) ==
    [serial |-> serial, route |-> route, status |-> code, body |-> body]

SessionIdle ==
    /\ sessionUser = Unset
    /\ sessionToken = Unset
    /\ tokenCookie = Unset
    /\ callbackAt = NoCallback
    /\ lastReply = Reply(0, "", 0, "")

\* "if (req.session.user) return next(); res.redirect('/login')"
isAuthenticated(user) == user # Unset

CanAsk == lastReply.serial < MaxSessionRequests

\* GET /: the page names the user when there is one
Home ==
    /\ CanAsk
    /\ lastReply' = Reply(lastReply.serial + 1, "/", 200,
                          IF sessionUser # Unset THEN "Logged in as" ELSE "Login")
    /\ UNCHANGED << sessionUser, sessionToken, tokenCookie, callbackAt,
                    requestVars, tokenVars >>

\* GET /login
Login ==
    /\ CanAsk
    /\ lastReply' = Reply(lastReply.serial + 1, "/login", 200, "Login with OAuth")
    /\ UNCHANGED << sessionUser, sessionToken, tokenCookie, callbackAt,
                    requestVars, tokenVars >>

\* GET /callback with no code in the query
CallbackNoCode ==
    /\ CanAsk
    /\ lastReply' = Reply(lastReply.serial + 1, "/callback", 400,
                          "Authorization code not provided")
    /\ UNCHANGED << sessionUser, sessionToken, tokenCookie, callbackAt,
                    requestVars, tokenVars >>

\* GET /callback?code=...: the OpenID configuration is awaited
CallbackWithCode ==
    /\ CanAsk
    /\ callbackAt.at = "idle"
    /\ callbackAt' = [callbackAt EXCEPT !.at = "discovery"]
    /\ UNCHANGED << sessionUser, sessionToken, tokenCookie, lastReply,
                    requestVars, tokenVars >>

\* the configuration arrives: the code is posted to the token endpoint
DiscoveryOk ==
    /\ callbackAt.at = "discovery"
    /\ callbackAt' = [callbackAt EXCEPT !.at = "exchange"]
    /\ UNCHANGED << sessionUser, sessionToken, tokenCookie, lastReply,
                    requestVars, tokenVars >>

\* the exchange answers with an access token: the user is being created
ExchangeOk ==
    /\ callbackAt.at = "exchange"
    /\ \E granted \in AccessTokens :
           callbackAt' = [at |-> "createUser", accessToken |-> granted]
    /\ UNCHANGED << sessionUser, sessionToken, tokenCookie, lastReply,
                    requestVars, tokenVars >>

\* the failure as it would be if the token were put in the session as soon
\* as the exchange had answered
CallbackFailsKeepingToken ==
    /\ callbackAt.at \in { "discovery", "exchange", "createUser" }
    /\ callbackAt' = NoCallback
    /\ sessionToken' = IF callbackAt.at = "createUser" THEN callbackAt.accessToken
                       ELSE sessionToken
    /\ lastReply' = Reply(lastReply.serial + 1, "/callback", 500,
                          "Error in OAuth callback")
    /\ UNCHANGED << sessionUser, tokenCookie, requestVars, tokenVars >>

\* any of the three awaits rejects: the catch answers 500
CallbackFails ==
    /\ callbackAt.at \in { "discovery", "exchange", "createUser" }
    /\ callbackAt' = NoCallback
    /\ lastReply' = Reply(lastReply.serial + 1, "/callback", 500,
                          "Error in OAuth callback")
    /\ UNCHANGED << sessionUser, sessionToken, tokenCookie, requestVars, tokenVars >>

\* rest.createUser resolves: user and token go into the session, the token
\* into the cookie, and the browser is sent home
CreateUserOk ==
    /\ callbackAt.at = "createUser"
    /\ \E created \in Users : sessionUser' = created
    /\ sessionToken' = callbackAt.accessToken
    /\ tokenCookie' = callbackAt.accessToken
    /\ callbackAt' = NoCallback
    /\ lastReply' = Reply(lastReply.serial + 1, "/callback", 302, "/")
    /\ UNCHANGED << requestVars, tokenVars >>

\* GET /logout: session.destroy(), clearCookie, redirect home
Logout ==
    /\ CanAsk
    /\ sessionUser' = Unset
    /\ sessionToken' = Unset
    /\ tokenCookie' = Unset
    /\ lastReply' = Reply(lastReply.serial + 1, "/logout", 302, "/")
    /\ UNCHANGED << callbackAt, requestVars, tokenVars >>

\* GET /find-user: the handler is registered without isAuthenticated and
\* takes the fixed user "123" in place of req.session.user; the page with
\* the asset results is sent whether or not the asset read succeeds
FindUser ==
    /\ CanAsk
    /\ lastReply' = Reply(lastReply.serial + 1, "/find-user", 200, "API Asset Results")
    /\ UNCHANGED << sessionUser, sessionToken, tokenCookie, callbackAt,
                    requestVars, tokenVars >>

NextSession ==
    \/ Home \/ Login \/ CallbackNoCode \/ CallbackWithCode \/ DiscoveryOk
    \/ ExchangeOk \/ CallbackFails \/ CreateUserOk \/ Logout \/ FindUser

(***************************************************************************)
(* The page request of app.get('/').                                       *)
(***************************************************************************)
NotResolved == [called |-> FALSE, assetName |-> "", originalDecimals |-> Undefined,
                result |-> Undefined]

\* a request about to be served against the given upstream tables
InitRequest(assetTables, oracleTables) ==
    /\ dbAssets \in assetTables
    /\ dbOracle \in oracleTables
    /\ pc = "assets"
    /\ assetResult = "null"
    /\ assetData = << >>
    /\ oracleResult = "null"
    /\ latestPrices = EmptyObject
    /\ status = 0
    /\ sortedAssets = << >>
    /\ summary = SummaryCard(NoSummary)
    /\ assetRows = << >>
    /\ fetchesOutstanding = { "assets" }
    /\ servedLog = {}
    /\ requestsServed = 0
    /\ objectPrototypeAdded = {}
    /\ TokenIdle
    /\ SessionIdle

InitWith(assetTables, oracleTables) ==
    InitRequest(assetTables, oracleTables) /\ resolved = NotResolved

\* getAssetsForCommonNameUser: the read succeeds and result.data is taken
GetAssetsOk ==
    /\ pc = "assets"
    /\ assetResult' = "response"
    /\ assetData' = dbAssets
    /\ pc' = "oracle"
    /\ fetchesOutstanding' = (fetchesOutstanding \ { "assets" }) \cup { "oracle" }
    /\ UNCHANGED << dbAssets, dbOracle, oracleResult, latestPrices, status, sortedAssets,
                    summary, assetRows, resolved, servedLog, requestsServed,
                    objectPrototypeAdded, tokenVars, sessionVars >>

\* ... or it fails: the error is logged and data stays []
GetAssetsFail ==
    /\ pc = "assets"
    /\ assetResult' = "null"
    /\ assetData' = << >>
    /\ pc' = "oracle"
    /\ fetchesOutstanding' = (fetchesOutstanding \ { "assets" }) \cup { "oracle" }
    /\ UNCHANGED << dbAssets, dbOracle, oracleResult, latestPrices, status, sortedAssets,
                    summary, assetRows, resolved, servedLog, requestsServed,
                    objectPrototypeAdded, tokenVars, sessionVars >>

RECURSIVE ReduceAll(_, _)
ReduceAll(data, n) ==
    IF n = 0 THEN EmptyObject ELSE ReduceObservation(ReduceAll(data, n - 1), data[n])

\* getOracleValues: the read succeeds, the index is reduced and mapped
GetOracleOk ==
    /\ pc = "oracle"
    /\ oracleResult' = "response"
    /\ latestPrices' = ApplyPriceMappings(ReduceAll(dbOracle, Len(dbOracle)))
    /\ pc' = "respond"
    /\ fetchesOutstanding' = fetchesOutstanding \ { "oracle" }
    /\ UNCHANGED << dbAssets, dbOracle, assetResult, assetData, status, sortedAssets,
                    summary, assetRows, resolved, servedLog, requestsServed,
                    objectPrototypeAdded, tokenVars, sessionVars >>

\* the failed read as it would be without the try/catch around it: the
\* rejection reaches the handler, which answers 500
GetOracleFailPropagates ==
    /\ pc = "oracle"
    /\ oracleResult' = "null"
    /\ latestPrices' = EmptyObject
    /\ status' = 500
    /\ pc' = "done"
    /\ fetchesOutstanding' = fetchesOutstanding \ { "oracle" }
    /\ UNCHANGED << dbAssets, dbOracle, assetResult, assetData, sortedAssets,
                    summary, assetRows, resolved, servedLog, requestsServed,
                    objectPrototypeAdded, tokenVars, sessionVars >>

\* ... or it fails: latestPrices stays {} (the mappings sit inside the try)
GetOracleFail ==
    /\ pc = "oracle"
    /\ oracleResult' = "null"
    /\ latestPrices' = EmptyObject
    /\ pc' = "respond"
    /\ fetchesOutstanding' = fetchesOutstanding \ { "oracle" }
    /\ UNCHANGED << dbAssets, dbOracle, assetResult, assetData, status, sortedAssets,
                    summary, assetRows, resolved, servedLog, requestsServed,
                    objectPrototypeAdded, tokenVars, sessionVars >>

\* the page: both cards, from the sorted groups
Render(sorted) ==
    /\ status' = 200
    /\ sortedAssets' = sorted
    /\ summary' = Summarise(sorted, latestPrices)
    /\ assetRows' = [j \in 1..Len(sorted) |-> AssetHeader(sorted[j], latestPrices)]

RespondWith(grouped) ==
    IF grouped.thrown
    THEN status' = 500 /\ UNCHANGED << sortedAssets, summary, assetRows >>
    ELSE Render(SortByName(grouped.groups))

\* what a request was given and what it answered
Served == [assetResult |-> assetResult, assetData |-> assetData,
           oracleResult |-> oracleResult,
           oracleData |-> IF oracleResult = "response" THEN dbOracle ELSE << >>,
           status |-> status', sortedAssets |-> sortedAssets',
           summary |-> summary', assetRows |-> assetRows']

\* the handler as it would be if it rendered as soon as the asset read
\* settled, the oracle read still in flight
RespondEarly ==
    /\ pc \in { "oracle", "respond" }
    /\ RespondWith(GroupAssets(assetData, Len(assetData)))
    /\ objectPrototypeAdded' = objectPrototypeAdded \cup PrototypeWrites(assetData)
    /\ servedLog' = servedLog \cup { Served }
    /\ requestsServed' = requestsServed + 1
    /\ pc' = "done"
    /\ UNCHANGED << dbAssets, dbOracle, assetResult, assetData, oracleResult,
                    latestPrices, resolved, fetchesOutstanding, tokenVars,
                    sessionVars >>

\* the rest of the handler: group, sort, render; a throw answers 500
Respond ==
    /\ pc = "respond"
    /\ RespondWith(GroupAssets(assetData, Len(assetData)))
    /\ objectPrototypeAdded' = objectPrototypeAdded \cup PrototypeWrites(assetData)
    /\ servedLog' = servedLog \cup { Served }
    /\ requestsServed' = requestsServed + 1
    /\ pc' = "done"
    /\ UNCHANGED << dbAssets, dbOracle, assetResult, assetData, oracleResult,
                    latestPrices, resolved, fetchesOutstanding, tokenVars,
                    sessionVars >>

Next == GetAssetsOk \/ GetAssetsFail \/ GetOracleOk \/ GetOracleFail \/ Respond

(***************************************************************************)
(* Upstream tables the requests are served against.                        *)
(***************************************************************************)
MaxRecords == 2        \* rows of the asset table, valuation runs
MaxObs == 2            \* rows of the oracle table, price-index runs
MaxGroupRecords == 3   \* rows of the asset table, grouping runs

SeqsUpTo(S, n) == UNION { [1..k -> S] : k \in 0..n }

\* a row of BlockApps-Mercata-Asset, with the fields the handler reads
AssetRecord(name, id, quantity, decimals) ==
    [name |-> name, id |-> id, quantity |-> quantity, decimals |-> decimals]

\* a row of BlockApps-Mercata-OracleService
Observation(name, consensusPrice) == [name |-> name, consensusPrice |-> consensusPrice]

\* the two STKN rows: 1000000000000000000000 and 500000000000000000000
StknRecords ==
    << AssetRecord("STKN", "", NatToChars(Shl10(<< 1 >>, 21)), Num(18)),
       AssetRecord("STKN", "", NatToChars(Shl10(<< 5 >>, 20)), Num(18)) >>

ValuedRecords ==
    { StknRecords[1], StknRecords[2],
      AssetRecord("ETHST", "", NatToChars(Shl10(<< 2, 5 >>, 17)), Num(6)),
      AssetRecord("USDST", "", << "1" >>, Num(18)),
      AssetRecord("USDST", "", NatToChars(Add(TwoTo53, << 1 >>)), Num(18)),
      AssetRecord("CATA", "", NatToChars(Shl10(<< 7, 5 >>, 17)), Undefined),
      AssetRecord("Gold", "", << "5" >>, Undefined),
      AssetRecord("Silver", "", << "1", "2", "3", "4", "5", "6", "7" >>, Num(4)) }

ValuedOracles ==
    { << >>,
      << Observation("ETH", << "3", "0", "0", "0", ".", "5" >>) >>,
      << Observation("ETH", << "3", "0", "0", "0", ".", "5" >>),
         Observation("Gold", << "a", "b", "c" >>),
         Observation("CATA", << "2" >>),
         Observation("Silver", << "0", ".", "3", "3" >>) >> }

Init == InitWith(SeqsUpTo(ValuedRecords, MaxRecords), ValuedOracles)

Spec == Init /\ [][Next]_vars

(***************************************************************************)
(* Requests against every short oracle table (no assets held).             *)
(***************************************************************************)
OracleNames ==
    { "ETH", "BTC", "Gold", "Silver", "ETHST", "PAXGST", Silver100oz, "WBTCST",
      "STRAT", "USDCST", "USDST", "USDTST", "a1", "__proto__", "" }

OraclePrices == { << >>, << "2" >>, << "7" >> }

Observations == { Observation(name, price) : name \in OracleNames, price \in OraclePrices }

InitOracle == InitWith({ << >> }, SeqsUpTo(Observations, MaxObs))

SpecOracle == InitOracle /\ [][Next]_vars

\* the price the last accepted observation of a name carries, empty if none
LastObserved(data, name) ==
    LET hits == { i \in 1..Len(data) :
                     /\ data[i].name = name /\ name # ""
                     /\ data[i].consensusPrice # << >> }
    IN  IF hits = {} THEN << >>
        ELSE data[CHOOSE i \in hits : \A j \in hits : j <= i].consensusPrice

PinTargets == { "STRAT", "USDCST", "USDST", "USDTST" }

AliasTargets == { "ETHST", "PAXGST", Silver100oz, "WBTCST" }

AliasSource(name) ==
    CASE name = "ETHST" -> "ETH"
      [] name = "PAXGST" -> "Gold"
      [] name = Silver100oz -> "Silver"
      [] name = "WBTCST" -> "BTC"

C10_PinsAlwaysOne ==
    oracleResult = "response" =>
        \A name \in PinTargets :
            name \in DOMAIN latestPrices /\ latestPrices[name] = << "1" >>

\* C10 (witness): an index built from a table that observes no ETH, BTC,
\* Gold or Silver, and USDST at a price other than "1".
C10_Witness ==
    /\ oracleResult = "response"
    /\ \A name \in { "ETH", "BTC", "Gold", "Silver" } : LastObserved(dbOracle, name) = << >>
    /\ LastObserved(dbOracle, "USDST") = << "7" >>
    /\ latestPrices["USDST"] = << "1" >>

\* C11: each pass-through alias carries the latest observed price of its
\* source whenever the source has one and the target has no observation of
\* its own (the source keeps that price too); when the source has no
\* observation the rule sets nothing: the target has what was observed for
\* it, and no price if nothing was.
C11_AliasCarriesSource ==
    oracleResult = "response" =>
        \A name \in AliasTargets :
            /\ (/\ LastObserved(dbOracle, AliasSource(name)) # << >>
                /\ LastObserved(dbOracle, name) = << >>)
               => /\ PriceOf(latestPrices, name) = LastObserved(dbOracle, AliasSource(name))
                  /\ PriceOf(latestPrices, AliasSource(name))
                         = LastObserved(dbOracle, AliasSource(name))
            /\ LastObserved(dbOracle, AliasSource(name)) = << >>
               => /\ PriceOf(latestPrices, name) = LastObserved(dbOracle, name)
                  /\ (name \in DOMAIN latestPrices <=> LastObserved(dbOracle, name) # << >>)

\* C11 (witness): ETH is observed twice, ETHST never, Gold never; the index
\* has the later ETH price for ETH and ETHST and nothing for PAXGST.
C11_Witness ==
    /\ oracleResult = "response"
    /\ Len(dbOracle) = 2
    /\ dbOracle[1] = Observation("ETH", << "2" >>)
    /\ dbOracle[2] = Observation("ETH", << "7" >>)
    /\ PriceOf(latestPrices, "ETH") = << "7" >>
    /\ PriceOf(latestPrices, "ETHST") = << "7" >>
    /\ "PAXGST" \notin DOMAIN latestPrices

\* C12: for every symbol that is not an alias or pin target, the index holds
\* the price of the last observation with that non-empty name and a
\* non-empty price, and nothing if there is none; observations with an
\* empty name or an empty price change nothing.
C12_LastWriteWins ==
    oracleResult = "response" =>
        /\ \A name \in (OracleNames \cup DOMAIN latestPrices)
                           \ (PinTargets \cup AliasTargets) :
               /\ PriceOf(latestPrices, name) = LastObserved(dbOracle, name)
               /\ (name \in DOMAIN latestPrices <=> LastObserved(dbOracle, name) # << >>)
        /\ \A name \in DOMAIN latestPrices : latestPrices[name] # << >>

(***************************************************************************)
(* Requests against every short asset table (no oracle rows): records that *)
(* share a name and differ in decimals, an overridden name, a record known *)
(* by its id only, and quantities at the edge of the exact integers.       *)
(***************************************************************************)
GroupedRecords ==
    { AssetRecord("Gold", "", << "1" >>, Num(2)),
      AssetRecord("Gold", "", NatToChars(TwoTo53), Num(6)),
      AssetRecord("Gold", "", << "3" >>, Num(2)),
      AssetRecord("CATA", "", << "5" >>, Num(2)),
      AssetRecord("CATA", "", << "7" >>, Undefined),
      AssetRecord("", "a1", << "1" >>, Null) }

InitGroup == InitWith(SeqsUpTo(GroupedRecords, MaxGroupRecords), { << >> })

SpecGroup == InitGroup /\ [][Next]_vars

\* the orderings of a sequence
Permutations(data) ==
    { [i \in 1..Len(data) |-> data[f[i]]] :
        f \in { g \in [1..Len(data) -> 1..Len(data)] :
                    \A i, j \in 1..Len(data) : i # j => g[i] # g[j] } }

\* the groups as a set of [name, totalQuantity, tokenCount, decimals]
GroupFigures(groups) ==
    { [name |-> groups[i].name, totalQuantity |-> groups[i].totalQuantity,
       tokenCount |-> groups[i].tokenCount, decimals |-> groups[i].decimals] :
        i \in 1..Len(groups) }

\* the groups as a set of [name, tokenCount, members as a bag]
GroupMembers(groups) ==
    { [name |-> groups[i].name, tokenCount |-> groups[i].tokenCount,
       members |-> [r \in { groups[i].tokens[j] : j \in 1..Len(groups[i].tokens) } |->
                       Cardinality({ j \in 1..Len(groups[i].tokens) :
                                        groups[i].tokens[j] = r })]] :
        i \in 1..Len(groups) }

\* the decimals the records of a group name report
ReportedDecimals(data, name) ==
    { data[i].decimals : i \in { j \in 1..Len(data) : GroupName(data[j]) = name } }

GroupDecimals(groups, name) ==
    { groups[i].decimals : i \in { j \in 1..Len(groups) : groups[j].name = name } }

\* C8 (as claimed): every permutation of the input yields the same set of
\* groups with the same name, totalQuantity, tokenCount and decimals, also
\* when records that share a name report different decimals.
C8_PermutationSameGroups ==
    (pc = "done" /\ status = 200) =>
        \A other \in Permutations(assetData) :
            GroupFigures(GroupAssets(other, Len(other)).groups) = GroupFigures(sortedAssets)

\* C8 (amended): every permutation of the input yields the same set of group
\* names, each with the same tokenCount and the same members up to order;
\* the decimals of a group are those resolved for its first-seen record, so
\* they are the same for every permutation where the name is overridden or
\* all records of the name report the same decimals.
C8_PermutationSameMembers ==
    (pc = "done" /\ status = 200) =>
        \A other \in Permutations(assetData) :
            /\ GroupMembers(GroupAssets(other, Len(other)).groups) = GroupMembers(sortedAssets)
            /\ \A name \in { sortedAssets[i].name : i \in 1..Len(sortedAssets) } :
                   (name \in DOMAIN knownDecimals
                        \/ Cardinality(ReportedDecimals(assetData, name)) = 1)
                   => GroupDecimals(GroupAssets(other, Len(other)).groups, name)
                          = GroupDecimals(sortedAssets, name)

\* C8 (witness): a page for three records of two names, interleaved, whose
\* Gold records report different decimals.
C8_Witness ==
    /\ pc = "done" /\ status = 200
    /\ Len(assetData) = 3
    /\ GroupName(assetData[1]) = "Gold" /\ GroupName(assetData[2]) = "CATA"
    /\ GroupName(assetData[3]) = "Gold"
    /\ assetData[1].decimals # assetData[3].decimals
    /\ Len(sortedAssets) = 2

(***************************************************************************)
(* getDecimalsForAsset on its own: a name and a reported value are drawn,  *)
(* the call records what it returns.                                       *)
(***************************************************************************)
ResolverNames ==
    DOMAIN knownDecimals \cup ObjectPrototypeKeys
        \cup { "STKN", "Gold", "USDST", "cata", "Unnamed Asset", "a1" }

ResolverDecimals == { Undefined, Null, Num(0), Num(2), Num(6), Num(18) }

InitResolver ==
    /\ InitRequest({ << >> }, { << >> })
    /\ \E name \in ResolverNames, reported \in ResolverDecimals :
           resolved = [called |-> FALSE, assetName |-> name,
                       originalDecimals |-> reported, result |-> Undefined]

ResolveDecimals ==
    /\ ~resolved.called
    /\ resolved' = [resolved EXCEPT
                       !.called = TRUE,
                       !.result = getDecimalsForAsset(resolved.assetName,
                                                      resolved.originalDecimals)]
    /\ UNCHANGED << dbAssets, dbOracle, pc, assetResult, assetData, oracleResult,
                    latestPrices, status, sortedAssets, summary, assetRows,
                    fetchesOutstanding, servedLog, requestsServed,
                    objectPrototypeAdded, tokenVars, sessionVars >>

NextResolver == ResolveDecimals

SpecResolver == InitResolver /\ [][NextResolver]_vars

\* C9: the resolver returns the override (CATA 18, ETHST 18, STRAT 4) for a
\* name of the table, whatever is reported; otherwise the reported decimals
\* when present; otherwise 0.  No name outside the table is overridden.
C9_ResolverTable ==
    resolved.called =>
        resolved.result =
            CASE resolved.assetName = "CATA" -> Num(18)
              [] resolved.assetName = "ETHST" -> Num(18)
              [] resolved.assetName = "STRAT" -> Num(4)
              [] OTHER -> IF resolved.originalDecimals.t = "num"
                          THEN resolved.originalDecimals ELSE Num(0)

(***************************************************************************)
(* Exact decimal arithmetic, against which the page is judged.             *)
(***************************************************************************)
\* the quantity a record carries, as an exact natural (0 if not digits)
ExactQuantity(asset) ==
    IF asset.quantity # << >> /\ \A i \in 1..Len(asset.quantity) : IsDigit(asset.quantity[i])
    THEN CharsToNat(asset.quantity) ELSE << >>

RECURSIVE ExactSum(_, _)
ExactSum(tokens, n) ==
    IF n = 0 THEN << >> ELSE Add(ExactSum(tokens, n - 1), ExactQuantity(tokens[n]))

\* |x - y|
AbsDiff(x, y) == IF Less(x, y) THEN Sub(y, x) ELSE Sub(x, y)

\* q with the decimal point placed d digits from the right, formatted with
\* 2 to 6 fraction digits
ExactDisplay(q, d) == LocaleOfShortest(FALSE, q, Len(q) - d, 2, 6)

\* v is q / 10^d to the precision a double holds: the double nearest to it
ScalesBackTo(v, d, q) == v = RoundToDouble(FALSE, q, 0, d)

\* a displayed decimal as a count of 10^-6, and whether it is one
IsDecimalText(text) ==
    /\ text # << >>
    /\ \A i \in 1..Len(text) : IsDigit(text[i]) \/ text[i] = "."
    /\ Cardinality({ i \in 1..Len(text) : text[i] = "." }) <= 1

FractionDigits(text) ==
    IF \E i \in 1..Len(text) : text[i] = "."
    THEN Len(text) - (CHOOSE i \in 1..Len(text) : text[i] = ".") ELSE 0

Millionths(text) == Shl10(CharsToNat(SelectSeq(text, IsDigit)), 6 - FractionDigits(text))

\* a displayed amount of dollars in cents
Cents(text) == Shr10(Millionths(text), 4)

Rendered == pc = "done" /\ status = 200

\* C2: the two STKN records with no STKN price give one group with
\* totalQuantity 1500000000000000000000, tokenCount 2, decimals 18, shown as
\* 1500.00 with no worth; and every group whose exact sum has 22 or more
\* digits is shown as that sum with the point placed decimals from the right.
C2_StknScenario ==
    Rendered =>
        /\ assetData = StknRecords =>
               /\ Len(sortedAssets) = 1
               /\ sortedAssets[1].name = "STKN"
               /\ sortedAssets[1].totalQuantity = FromNat(Shl10(<< 1, 5 >>, 20))
               /\ sortedAssets[1].tokenCount = 2
               /\ sortedAssets[1].decimals = Num(18)
               /\ assetRows[1].quantityDisplay = << "1", "5", "0", "0", ".", "0", "0" >>
               /\ ~assetRows[1].hasWorth
        /\ \A i \in 1..Len(sortedAssets) :
               (/\ sortedAssets[i].decimals.t = "num"
                /\ Len(ExactSum(sortedAssets[i].tokens, sortedAssets[i].tokenCount)) >= 22)
               => assetRows[i].quantityDisplay =
                      ExactDisplay(ExactSum(sortedAssets[i].tokens, sortedAssets[i].tokenCount),
                                   sortedAssets[i].decimals.v)

\* C3: the totalQuantity of every group is the exact integer sum of the
\* quantities of its records, whatever their magnitude.
C3_ExactTotal ==
    Rendered =>
        \A i \in 1..Len(sortedAssets) :
            /\ ~IsNaN(sortedAssets[i].totalQuantity)
            /\ IsInteger(sortedAssets[i].totalQuantity)
            /\ IntPart(sortedAssets[i].totalQuantity)
                   = ExactSum(sortedAssets[i].tokens, sortedAssets[i].tokenCount)

\* C4: for every quantity q and decimals d >= 0 the value the normalizer
\* produces, multiplied by 10^d, is q again (read to the precision of the
\* value's type: it is the double nearest to q / 10^d).
C4_ScalesBack ==
    Rendered =>
        \A i \in 1..Len(sortedAssets) :
            sortedAssets[i].decimals.t = "num" =>
                ScalesBackTo(ActualQuantity(sortedAssets[i]), sortedAssets[i].decimals.v,
                             IntPart(sortedAssets[i].totalQuantity))

\* C5: for every quantity and every decimals >= 0 the displayed quantity is
\* the digit string of the quantity with the point placed decimals from the
\* right; only the formatting to at most 6 fraction digits rounds (so the
\* displayed decimal is within 10^-6 of the placed one).
C5_PlacementExact ==
    Rendered =>
        \A i \in 1..Len(sortedAssets) :
            sortedAssets[i].decimals.t = "num" =>
                /\ IsDecimalText(assetRows[i].quantityDisplay)
                /\ Leq(AbsDiff(Shl10(Millionths(assetRows[i].quantityDisplay),
                                     sortedAssets[i].decimals.v),
                               Shl10(IntPart(sortedAssets[i].totalQuantity), 6)),
                       Shl10(<< 1 >>, sortedAssets[i].decimals.v))

\* the price index without one key
Without(obj, key) == [q \in (DOMAIN obj) \ { key } |-> obj[q]]

Unparseable(price) == price # << >> /\ IsNaN(ParseFloat(price))

\* C6: a group whose price cannot be parsed as a decimal gets no worth, and
\* the worth of every other group and the fungible total are those of the
\* same request without that price.
C6_UnparseablePriceSkipped ==
    Rendered =>
        \A i \in 1..Len(sortedAssets) :
            Unparseable(PriceOf(latestPrices, sortedAssets[i].name)) =>
                /\ ~assetRows[i].hasWorth
                /\ summary.formattedValue =
                       Summarise(sortedAssets,
                                 Without(latestPrices, sortedAssets[i].name)).formattedValue
                /\ \A j \in 1..Len(sortedAssets) :
                       j # i => assetRows[j] =
                           AssetHeader(sortedAssets[j],
                                       Without(latestPrices, sortedAssets[i].name))

\* the displayed worths of the first n headers, summed in cents
RECURSIVE WorthCents(_, _)
WorthCents(rows, n) ==
    IF n = 0 THEN << >>
    ELSE IF rows[n].hasWorth THEN Add(WorthCents(rows, n - 1), Cents(rows[n].worth))
    ELSE WorthCents(rows, n - 1)

AllWorthsNumeric ==
    /\ IsDecimalText(summary.formattedValue)
    /\ \A i \in 1..Len(assetRows) : assetRows[i].hasWorth => IsDecimalText(assetRows[i].worth)

\* C7: the fungible total shown on the card is the sum of the worths shown
\* in the asset headers (judged where every figure shown is a number).
C7_TotalIsSumOfWorths ==
    (Rendered /\ AllWorthsNumeric) =>
        Cents(summary.formattedValue) = WorthCents(assetRows, Len(assetRows))

\* the records of the input whose key is the given name, in input order
RecordsOf(data, name) ==
    LET hasKey(r) == GroupName(r) = name
    IN  SelectSeq(data, hasKey)

\* C13: after grouping, every group has tokenCount >= 1, tokenCount equal to
\* the length of its members list and to the number of input records whose
\* key is the group's name (its members are those records), and every input
\* record is a member of exactly one group.
C13_TokenCounts ==
    (pc = "done" /\ status = 200) =>
        /\ \A i \in 1..Len(sortedAssets) :
               /\ sortedAssets[i].tokenCount >= 1
               /\ sortedAssets[i].tokenCount = Len(sortedAssets[i].tokens)
               /\ sortedAssets[i].tokenCount =
                      Cardinality({ j \in 1..Len(assetData) :
                                       GroupName(assetData[j]) = sortedAssets[i].name })
               /\ sortedAssets[i].tokens = RecordsOf(assetData, sortedAssets[i].name)
        /\ \A j \in 1..Len(assetData) :
               Cardinality({ i \in 1..Len(sortedAssets) :
                                sortedAssets[i].name = GroupName(assetData[j]) }) = 1

\* C13 (witness): three records, the first and the last of one key, rendered
\* as a group of two and a group of one.
C13_Witness ==
    /\ pc = "done" /\ status = 200
    /\ Len(assetData) = 3
    /\ GroupName(assetData[1]) = GroupName(assetData[3])
    /\ GroupName(assetData[1]) # GroupName(assetData[2])
    /\ { sortedAssets[i].tokenCount : i \in 1..Len(sortedAssets) } = { 1, 2 }

(***************************************************************************)
(* Requests against short asset tables whose rows carry unusual content:   *)
(* quantities that are not digit strings, a missing quantity, keys that    *)
(* every object inherits, rows with neither name nor id, with an id only,  *)
(* and with both.                                                          *)
(***************************************************************************)
MaxContentRecords == 2   \* rows of the asset table, record-content runs

ContentRecords ==
    { AssetRecord("Gold", "", << "7" >>, Undefined),
      AssetRecord("Gold", "", << "a", "b", "c" >>, Undefined),
      AssetRecord("Gold", "", << "1", "2", "a", "b", "c" >>, Undefined),
      AssetRecord("Gold", "", << "-", "5" >>, Undefined),
      AssetRecord("Gold", "", << "1", ".", "5" >>, Undefined),
      AssetRecord("Gold", "", << >>, Undefined),
      AssetRecord("constructor", "", << "1" >>, Num(0)),
      AssetRecord("", "toString", << "1" >>, Undefined),
      AssetRecord("", "", << "2" >>, Undefined),
      AssetRecord("", "a1", << "3" >>, Undefined),
      AssetRecord("Unnamed Asset", "a1", << "4" >>, Undefined) }

InitContent == InitWith(SeqsUpTo(ContentRecords, MaxContentRecords), { << >> })

SpecContent == InitContent /\ [][Next]_vars

\* a quantity that is entirely a non-negative integer string
WellFormedQuantity(quantity) ==
    quantity # << >> /\ \A i \in 1..Len(quantity) : IsDigit(quantity[i])

\* what a record adds to its group's total: its quantity, 0 when malformed
ClaimedQuantity(asset) ==
    IF WellFormedQuantity(asset.quantity) THEN FromNat(CharsToNat(asset.quantity)) ELSE Zero

RECURSIVE ClaimedTotal(_, _)
ClaimedTotal(tokens, n) ==
    IF n = 0 THEN Zero ELSE DAdd(ClaimedTotal(tokens, n - 1), ClaimedQuantity(tokens[n]))

\* C14: a record whose quantity is absent or not entirely a non-negative
\* integer string counts as quantity 0: it adds 1 to its group's tokenCount
\* and nothing to its totalQuantity.
C14_MalformedQuantityIsZero ==
    (pc = "done" /\ status = 200) =>
        \A i \in 1..Len(sortedAssets) :
            /\ sortedAssets[i].tokenCount = Len(sortedAssets[i].tokens)
            /\ sortedAssets[i].totalQuantity =
                   ClaimedTotal(sortedAssets[i].tokens, Len(sortedAssets[i].tokens))

\* C16: whatever the records carry, grouping, sorting and valuation complete
\* and the request is answered with the asset page, never with the 500
\* error response.
C16_NoRecordHalts ==
    pc = "done" => status = 200

\* C15: a failed fetch never propagates.  After a failed asset fetch the
\* record list is empty; after a failed oracle fetch the price index is empty
\* and no group has a worth or counts as priced; and in every combination of
\* success and failure the request is answered with the page, one header for
\* each key among the records that arrived.
C15_FailedFetchDegrades ==
    /\ (pc # "assets" /\ assetResult = "null") => assetData = << >>
    /\ (pc \in { "respond", "done" } /\ oracleResult = "null") => latestPrices = EmptyObject
    /\ pc = "done" =>
           /\ status = 200
           /\ assetResult = "response" => assetData = dbAssets
           /\ Len(assetRows) = Cardinality({ GroupName(assetData[j]) : j \in 1..Len(assetData) })
           /\ oracleResult = "null" =>
                  /\ \A i \in 1..Len(assetRows) : ~assetRows[i].hasWorth
                  /\ summary.fungibleTokensCount = 0
                  /\ summary.formattedValue = << "0", ".", "0", "0" >>

\* C15 (witness): the asset fetch succeeded with a USDST row, the oracle fetch
\* failed although the oracle table has rows, and the page is answered with
\* the USDST group unpriced.
C15_Witness ==
    /\ pc = "done" /\ status = 200
    /\ assetResult = "response" /\ oracleResult = "null"
    /\ dbOracle # << >>
    /\ \E i \in 1..Len(assetRows) : assetRows[i].name = "USDST" /\ ~assetRows[i].hasWorth

\* the decimals by which a group's quantity is scaled for valuation
ValuationDecimals(asset) == IF asset.decimals.t = "num" THEN asset.decimals.v ELSE 0

\* The value of a group in exact arithmetic, in units of 10^-(d+6): the
\* integer total times the price in millionths.
ExactValue(asset, price) == Mul(IntPart(asset.totalQuantity), Millionths(price))

\* a worth shown for an exact value x (in units of 10^-(d+6)) obeys the floor
FloorObeyed(worth, x, d) ==
    /\ (x # << >> /\ Less(x, Shl10(<< 1 >>, d + 4))) => worth = << "0", ".", "0", "1" >>
    /\ x # << >> => worth # << "0", ".", "0", "0" >>

\* C17: every priced group whose value, quantity times price, is greater than
\* 0 and less than 0.01 is shown as worth exactly 0.01, and no group with a
\* nonzero value is shown as worth 0.00.  The value is taken in exact decimal
\* arithmetic from the group's integer total, its decimals and its price.
C17_ValuationFloor ==
    (pc = "done" /\ status = 200) =>
        \A i \in 1..Len(sortedAssets) :
            (/\ assetRows[i].hasWorth
             /\ IsDecimalText(PriceOf(latestPrices, sortedAssets[i].name))
             /\ ~sortedAssets[i].totalQuantity.neg
             /\ Len(IntPart(sortedAssets[i].totalQuantity)) <= 21)
            => FloorObeyed(assetRows[i].worth,
                           ExactValue(sortedAssets[i],
                                      PriceOf(latestPrices, sortedAssets[i].name)),
                           ValuationDecimals(sortedAssets[i]))

\* C17 (witness): one USDST record of quantity 1 with 18 decimals, priced at
\* "1", is shown as worth 0.01.
C17_Witness ==
    /\ pc = "done" /\ status = 200
    /\ Len(sortedAssets) = 1
    /\ sortedAssets[1].name = "USDST"
    /\ sortedAssets[1].totalQuantity = FromNat(<< 1 >>)
    /\ PriceOf(latestPrices, "USDST") = << "1" >>
    /\ assetRows[1].worth = << "0", ".", "0", "1" >>

\* the bucket the claim puts a group in
BucketOf(name, prices) ==
    IF name = "CATA" THEN "native"
    ELSE IF name \in DOMAIN prices THEN "fungible"
    ELSE "nonFungible"

\* the tokenCount of the first n groups that belong to a bucket, summed
RECURSIVE BucketCount(_, _, _, _)
BucketCount(sorted, n, prices, bucket) ==
    IF n = 0 THEN 0
    ELSE BucketCount(sorted, n - 1, prices, bucket)
             + (IF BucketOf(sorted[n].name, prices) = bucket THEN sorted[n].tokenCount ELSE 0)

\* C18: every group is counted in exactly one bucket of the card: CATA in the
\* native bucket with or without a price, any other group in the fungible
\* bucket when the index has a price for its name and else in the
\* non-fungible bucket, with no worth shown; each count is the sum of
\* tokenCount over its groups and the three add up to the number of records.
C18_OneBucket ==
    (pc = "done" /\ status = 200) =>
        /\ summary.cataTokensCount =
               BucketCount(sortedAssets, Len(sortedAssets), latestPrices, "native")
        /\ summary.fungibleTokensCount =
               BucketCount(sortedAssets, Len(sortedAssets), latestPrices, "fungible")
        /\ summary.nonFungibleTokensCount =
               BucketCount(sortedAssets, Len(sortedAssets), latestPrices, "nonFungible")
        /\ summary.cataTokensCount + summary.fungibleTokensCount
               + summary.nonFungibleTokensCount = Len(assetData)
        /\ \A i \in 1..Len(sortedAssets) :
               BucketOf(sortedAssets[i].name, latestPrices) = "nonFungible"
                   => ~assetRows[i].hasWorth

\* C18 (witness): a CATA record and a Silver record, both with a price in the
\* index: CATA is counted as native, Silver as fungible.
C18_Witness ==
    /\ pc = "done" /\ status = 200
    /\ Len(assetData) = 2
    /\ { sortedAssets[i].name : i \in 1..Len(sortedAssets) } = { "CATA", "Silver" }
    /\ "CATA" \in DOMAIN latestPrices /\ "Silver" \in DOMAIN latestPrices
    /\ summary.cataTokensCount = 1
    /\ summary.fungibleTokensCount = 1
    /\ summary.nonFungibleTokensCount = 0

\* C19: the grouping result is sorted ascending by group name (in the order
\* of localeCompare) and holds exactly one group for each key that occurs in
\* the input and none for any other key.
C19_SortedOnePerKey ==
    (pc = "done" /\ status = 200) =>
        /\ \A i, j \in 1..Len(sortedAssets) :
               i < j => localeCompare(sortedAssets[i].name, sortedAssets[j].name) < 0
        /\ { sortedAssets[i].name : i \in 1..Len(sortedAssets) }
               = { GroupName(assetData[j]) : j \in 1..Len(assetData) }
        /\ Len(sortedAssets)
               = Cardinality({ GroupName(assetData[j]) : j \in 1..Len(assetData) })

\* C19 (witness): the records arrive as Gold, then the record known by its id
\* "a1", then CATA, and the groups are a1, CATA, Gold.
C19_Witness ==
    /\ pc = "done" /\ status = 200
    /\ Len(assetData) = 3
    /\ assetData[1].name = "Gold" /\ assetData[2].id = "a1" /\ assetData[3].name = "CATA"
    /\ Len(sortedAssets) = 3
    /\ sortedAssets[1].name = "a1" /\ sortedAssets[2].name = "CATA"
    /\ sortedAssets[3].name = "Gold"

\* the key the claim gives a record
ClaimedKey(asset) ==
    CASE asset.name # "" -> asset.name
      [] asset.name = "" /\ asset.id # "" -> asset.id
      [] OTHER -> "Unnamed Asset"

\* the groups that hold a record among their members
GroupsHolding(groups, asset) ==
    { i \in 1..Len(groups) : \E k \in 1..Len(groups[i].tokens) : groups[i].tokens[k] = asset }

\* C20: the key of a record is its name when present, else its id when
\* present, else 'Unnamed Asset': every record is held by the one group named
\* by its key, so two records share a group exactly when their keys are equal.
C20_KeyOfRecord ==
    (pc = "done" /\ status = 200) =>
        /\ \A j \in 1..Len(assetData) :
               \E i \in 1..Len(sortedAssets) :
                   /\ GroupsHolding(sortedAssets, assetData[j]) = { i }
                   /\ sortedAssets[i].name = ClaimedKey(assetData[j])
        /\ \A j, k \in 1..Len(assetData) :
               (GroupsHolding(sortedAssets, assetData[j])
                    = GroupsHolding(sortedAssets, assetData[k]))
               <=> ClaimedKey(assetData[j]) = ClaimedKey(assetData[k])

\* C20 (witness): a record with neither name nor id and a record named
\* 'Unnamed Asset' that also has an id share the one group 'Unnamed Asset'.
C20_Witness ==
    /\ pc = "done" /\ status = 200
    /\ Len(assetData) = 2
    /\ assetData[1].name = "" /\ assetData[1].id = ""
    /\ assetData[2].name = "Unnamed Asset" /\ assetData[2].id = "a1"
    /\ Len(sortedAssets) = 1
    /\ sortedAssets[1].name = "Unnamed Asset"
    /\ sortedAssets[1].tokenCount = 2

(***************************************************************************)
(* The order of the handler's steps.                                       *)
(***************************************************************************)
\* C21: within one request, grouping and valuation start only after both
\* fetches have settled, each with its data or, failed, with an empty
\* result: while a fetch is outstanding nothing is grouped or rendered, and
\* once the request is answered no fetch is outstanding and a failed fetch
\* has left [] or {}.
C21_RenderAfterFetches ==
    /\ fetchesOutstanding # {} =>
           /\ status = 0
           /\ sortedAssets = << >>
           /\ assetRows = << >>
           /\ summary = SummaryCard(NoSummary)
    /\ status # 0 =>
           /\ fetchesOutstanding = {}
           /\ assetResult = "null" => assetData = << >>
           /\ assetResult = "response" => assetData = dbAssets
           /\ oracleResult = "null" => latestPrices = EmptyObject

\* a page rendered from delivered records after the oracle read failed
C21_Witness ==
    /\ pc = "done" /\ status = 200
    /\ assetResult = "response" /\ oracleResult = "null"
    /\ Len(sortedAssets) = 2
    /\ fetchesOutstanding = {}

(***************************************************************************)
(* Requests served one after another by the same process.                  *)
(***************************************************************************)
MaxRequests == 3       \* requests the process serves

SequelRecords ==
    << AssetRecord("__proto__", "", << "5" >>, Num(2)),
       AssetRecord("totalQuantity", "", << "2", "5", "0" >>, Num(2)),
       AssetRecord("Gold", "", << "5" >>, Num(2)) >>

SequelTables ==
    { << SequelRecords[1] >>, << SequelRecords[2] >>,
      << SequelRecords[3], SequelRecords[2] >>,
      << SequelRecords[2], SequelRecords[1] >> }

InitSequel == InitWith(SequelTables, { << >> })

\* The next GET /: the handler's locals are made anew; the process keeps
\* its module-level objects (the token cache) and the built-in objects.
NewRequest ==
    /\ pc = "done"
    /\ requestsServed < MaxRequests
    /\ dbAssets' \in SequelTables
    /\ pc' = "assets"
    /\ assetResult' = "null"
    /\ assetData' = << >>
    /\ oracleResult' = "null"
    /\ latestPrices' = EmptyObject
    /\ status' = 0
    /\ sortedAssets' = << >>
    /\ summary' = SummaryCard(NoSummary)
    /\ assetRows' = << >>
    /\ fetchesOutstanding' = { "assets" }
    /\ UNCHANGED << dbOracle, resolved, servedLog, requestsServed,
                    objectPrototypeAdded, tokenVars, sessionVars >>

NextSequel ==
    \/ GetAssetsOk \/ GetAssetsFail \/ GetOracleOk \/ GetOracleFail \/ Respond
    \/ NewRequest

SpecSequel == InitSequel /\ [][NextSequel]_vars

\* what a request received
Received(served) ==
    << served.assetResult, served.assetData, served.oracleResult, served.oracleData >>

\* equal inputs, equal answers: no request is answered differently from
\* another that received the same
SameInputsSameAnswers ==
    \A one \in servedLog, other \in servedLog :
        Received(one) = Received(other) => one = other

\* C22: the computation is deterministic and keeps no state across
\* requests: any two requests that received the same asset records and the
\* same oracle observations answered with the same groups, valuations and
\* summary, whatever was served before them; apart from the token cache
\* nothing a request wrote outlives it.
C22_NoStateAcrossRequests ==
    /\ SameInputsSameAnswers
    /\ objectPrototypeAdded = {}

(***************************************************************************)
(* The token cache under concurrent requests of the API client.            *)
(***************************************************************************)
InitToken == InitWith({ << >> }, { << >> })

SpecToken == InitToken /\ [][NextToken]_vars

\* the caller has its token
HasToken(c) == tokenCallers[c].at \in { "returned", "sent" }

\* C23: callers that find no valid cached token may each start a refresh;
\* in every interleaving a caller that returns holds a token of a completed
\* refresh (its own, if it refreshed), and the cache entry is the token and
\* expiry of one single completed refresh, never a mix of two.
C23_RaceOnlyDuplicates ==
    /\ \A c \in Callers :
           HasToken(c) =>
               /\ \E done \in refreshesDone : done.token = tokenCallers[c].token
               /\ ~tokenCallers[c].fromCache =>
                      /\ TokenData(tokenCallers[c].reply) \in refreshesDone
                      /\ TokenData(tokenCallers[c].reply).token = tokenCallers[c].token
    /\ cacheKey \in DOMAIN CACHED_DATA => CACHED_DATA[cacheKey] \in refreshesDone
    /\ cacheKey \notin DOMAIN CACHED_DATA => refreshesDone = {}
    /\ Cardinality(refreshesDone) <= oauthIssued

\* two refreshes raced and the one issued first completed last
C23_Witness ==
    /\ \A c \in Callers : HasToken(c) /\ ~tokenCallers[c].fromCache
    /\ \A c \in Callers : tokenCallers[c].currentTime = 0
    /\ tokenCallers[1].reply # tokenCallers[2].reply
    /\ TokenData(tokenCallers[1].reply).expiresAt > TokenData(tokenCallers[2].reply).expiresAt
    /\ tokenCallers[2].token = "t1"
    /\ CACHED_DATA[cacheKey] = TokenData(tokenCallers[2].reply)

\* the cache holds a token that is not undefined and has more than the
\* reserve left at the current second
ClaimedFresh ==
    /\ cacheKey \in DOMAIN CACHED_DATA
    /\ CACHED_DATA[cacheKey].token # ""
    /\ CACHED_DATA[cacheKey].expiresAt
           > FloorSeconds(clockNow) + TOKEN_LIFETIME_RESERVE_SECONDS

C25_Step(c) ==
    /\ (tokenCallers[c].at = "idle" /\ tokenCallers'[c].at # "idle") =>
           \/ /\ ClaimedFresh
              /\ tokenCallers'[c].at = "returned"
              /\ tokenCallers'[c].token = CACHED_DATA[cacheKey].token
              /\ CACHED_DATA[cacheKey].expiresAt * 1000 - clockNow
                     > TOKEN_LIFETIME_RESERVE_SECONDS * 1000
              /\ UNCHANGED << CACHED_DATA, oauthIssued >>
           \/ /\ ~ClaimedFresh
              /\ tokenCallers'[c].at = "init"
    /\ (tokenCallers[c].at = "reply" /\ tokenCallers'[c].at = "returned") =>
           /\ cacheKey \in DOMAIN CACHED_DATA'
           /\ CACHED_DATA'[cacheKey].token = tokenCallers[c].reply.token.access_token
           /\ CACHED_DATA'[cacheKey].expiresAt
                  = FloorSeconds(tokenCallers[c].reply.token.expires_at)
           /\ tokenCallers'[c].token = tokenCallers[c].reply.token.access_token
    /\ (tokenCallers[c].at # "returned" /\ tokenCallers'[c].at = "returned") =>
           tokenCallers[c].at \in { "idle", "reply" }

\* C25: getUserToken returns the cached token, without contacting the OAuth
\* server, only when a cached token exists whose expiresAt is strictly
\* greater than the current time plus the 120-second reserve; otherwise it
\* requests a new token and, when that arrives, stores it with its expiry
\* under the cache key and returns it.  A token served from the cache has
\* more than 120 seconds left.
C25_CachedOnlyWhenFresh == [][\A c \in Callers : C25_Step(c)]_vars

\* one caller refreshed; the other was served that token from the cache
\* half a second above the reserve
C25_Witness ==
    /\ ~tokenCallers[2].fromCache /\ HasToken(2)
    /\ tokenCallers[1].fromCache /\ HasToken(1) /\ tokenCallers[1].left = 120500
    /\ tokenCallers[1].token = tokenCallers[2].token

\* C26: when oauthUtil.init or the token request fails, getUserToken throws
\* 'Failed to fetch user OAuth token' and the failing call leaves the cache
\* as it is: no entry is removed, replaced or created by it.
C26_FailureKeepsCache ==
    [][\A c \in Callers :
          /\ (tokenCallers[c].at # "threw" /\ tokenCallers'[c].at = "threw") =>
                 /\ tokenCallers[c].at \in { "init", "token", "reply" }
                 /\ tokenCallers'[c].error = "Failed to fetch user OAuth token"
                 /\ tokenCallers'[c].token = ""
                 /\ CACHED_DATA' = CACHED_DATA
          /\ (tokenCallers'[c] # tokenCallers[c]
                 /\ tokenCallers'[c].at \in { "init", "token", "reply", "threw" }) =>
                 CACHED_DATA' = CACHED_DATA]_vars

\* a refresh failed for a call made at second 2 while the cache held the
\* entry an earlier call had stored; the entry is still there
C26_Witness ==
    /\ tokenCallers[2].at = "threw" /\ tokenCallers[2].currentTime = 2
    /\ tokenCallers[1].at = "sent" /\ ~tokenCallers[1].fromCache
    /\ cacheKey \in DOMAIN CACHED_DATA
    /\ CACHED_DATA[cacheKey] = TokenData(tokenCallers[1].reply)
    /\ CACHED_DATA[cacheKey].token = "t1"

\* C27: every request sent upstream carries 'Bearer <token>' with the token
\* getUserToken returned for that request; a request whose getUserToken
\* failed is rejected by the interceptor and never sent.
C27_SentWithBearer ==
    /\ \A sent \in upstreamSent :
           /\ tokenCallers[sent.caller].at = "sent"
           /\ tokenCallers[sent.caller].error = ""
           /\ sent.Authorization = "Bearer " \o tokenCallers[sent.caller].token
    /\ \A c \in Callers :
           /\ tokenCallers[c].at = "sent" <=> \E sent \in upstreamSent : sent.caller = c
           /\ tokenCallers[c].error # "" => ~\E sent \in upstreamSent : sent.caller = c

\* one request went out with its token, the other was rejected
C27_Witness ==
    /\ [caller |-> 1, Authorization |-> "Bearer t1"] \in upstreamSent
    /\ tokenCallers[2].at = "rejected"
    /\ Cardinality(upstreamSent) = 1

(***************************************************************************)
(* The session of the OAuth sample application.                            *)
(***************************************************************************)
InitSession == InitWith({ << >> }, { << >> })

SpecSession == InitSession /\ [][NextSession]_vars

\* a request has just been answered on the given route
Answered(route) ==
    lastReply'.serial # lastReply.serial /\ lastReply'.route = route

\* C24: /find-user requires authentication: a request whose session holds
\* no user is never served the asset results; it is redirected to /login.
C24_FindUserNeedsLogin ==
    [][(Answered("/find-user") /\ ~isAuthenticated(sessionUser)) =>
           /\ lastReply'.status = 302
           /\ lastReply'.body = "/login"]_vars

\* C30: the session receives a user and a token only at the end of a
\* callback that was given a code, exchanged it and created the user, all
\* with success; a callback without a code is answered 400, one whose
\* discovery, exchange or user creation fails 500, and both leave session
\* and token cookie as they were.  After /logout the session holds no user.
C30_SessionSetOnlyBySuccess ==
    [][/\ ((sessionUser' # sessionUser /\ sessionUser' # Unset)
             \/ (sessionToken' # sessionToken /\ sessionToken' # Unset)
             \/ (tokenCookie' # tokenCookie /\ tokenCookie' # Unset)) =>
              /\ callbackAt.at = "createUser"
              /\ callbackAt.accessToken \in AccessTokens
              /\ sessionUser' \in Users
              /\ sessionToken' = callbackAt.accessToken
              /\ tokenCookie' = callbackAt.accessToken
              /\ Answered("/callback") /\ lastReply'.status = 302
       /\ callbackAt'.at = "createUser" => callbackAt'.accessToken \in AccessTokens
       /\ Answered("/callback") =>
              /\ lastReply'.status \in { 400, 500, 302 }
              /\ lastReply'.status = 400 => UNCHANGED callbackAt
              /\ lastReply'.status = 500 =>
                     /\ callbackAt.at \in { "discovery", "exchange", "createUser" }
                     /\ callbackAt' = NoCallback
              /\ lastReply'.status \in { 400, 500 } =>
                     UNCHANGED << sessionUser, sessionToken, tokenCookie >>
              /\ lastReply'.status = 302 => sessionUser' # Unset
       /\ Answered("/logout") => sessionUser' = Unset]_vars

\* a logged-in session whose later callback failed after the exchange: the
\* user, token and cookie of the first login are still there
C30_Witness ==
    /\ sessionUser = "0xU1" /\ sessionToken = "a1" /\ tokenCookie = "a1"
    /\ lastReply.route = "/callback" /\ lastReply.status = 500
    /\ lastReply.serial = 2

(***************************************************************************)
(* The alias step seen from the reduced index.                             *)
(***************************************************************************)
\* the index as the reduction pass leaves it, before any mapping
Reduced == ReduceAll(dbOracle, Len(dbOracle))

\* C28: the alias step does not cascade and is idempotent: an alias target
\* ends with the price its source had right after the reduction pass (and
\* with what the reduction left at the target when the source had none),
\* no rule writes a symbol that a rule reads, and applying the mappings to
\* the mapped index once more changes nothing.
C28_AliasNoCascadeIdempotent ==
    oracleResult = "response" =>
        /\ \A name \in AliasTargets :
               /\ PriceOf(latestPrices, name) =
                      IF PriceOf(Reduced, AliasSource(name)) # << >>
                      THEN PriceOf(Reduced, AliasSource(name))
                      ELSE PriceOf(Reduced, name)
               /\ PriceOf(latestPrices, AliasSource(name))
                      = PriceOf(Reduced, AliasSource(name))
               /\ AliasSource(name) \notin AliasTargets \cup PinTargets
        /\ ApplyPriceMappings(latestPrices) = latestPrices

\* ETH is observed and BTC is not: ETHST has the ETH price, WBTCST has none,
\* and a second application of the mappings leaves the index as it is
C28_Witness ==
    /\ oracleResult = "response"
    /\ PriceOf(Reduced, "ETH") = << "7" >>
    /\ PriceOf(Reduced, "BTC") = << >>
    /\ PriceOf(latestPrices, "ETHST") = << "7" >>
    /\ "WBTCST" \notin DOMAIN latestPrices
    /\ ApplyPriceMappings(latestPrices) = latestPrices
    /\ latestPrices # Reduced

(***************************************************************************)
(* The grouping loop turn by turn.                                         *)
(***************************************************************************)
\* the groups after the first n records
GroupsAfter(n) == GroupAssets(assetData, n).groups

\* the first record of the table that has the key
FirstOfKey(name) ==
    assetData[CHOOSE i \in 1..Len(assetData) :
                  /\ GroupName(assetData[i]) = name
                  /\ \A j \in 1..(i - 1) : GroupName(assetData[j]) # name]

\* the turn for record n: every group that was there keeps its name and
\* decimals, and only the group of the record's key changes at all
TurnKeepsFrame(n, at) ==
    /\ \A i \in 1..Len(GroupsAfter(n - 1)) :
           /\ GroupsAfter(n)[i].name = GroupsAfter(n - 1)[i].name
           /\ GroupsAfter(n)[i].decimals = GroupsAfter(n - 1)[i].decimals
           /\ i # at => GroupsAfter(n)[i] = GroupsAfter(n - 1)[i]
    /\ at # 0 =>
           /\ Len(GroupsAfter(n)) = Len(GroupsAfter(n - 1))
           /\ GroupsAfter(n)[at].tokenCount = GroupsAfter(n - 1)[at].tokenCount + 1
           /\ GroupsAfter(n)[at].tokens = Append(GroupsAfter(n - 1)[at].tokens, assetData[n])
    /\ at = 0 =>
           /\ Len(GroupsAfter(n)) = Len(GroupsAfter(n - 1)) + 1
           /\ GroupsAfter(n)[Len(GroupsAfter(n))].name = GroupName(assetData[n])
           /\ GroupsAfter(n)[Len(GroupsAfter(n))].decimals
                  = getDecimalsForAsset(GroupName(assetData[n]), assetData[n].decimals)

\* C29: a group's decimals is resolved once, when the first record of its
\* key is seen, from that record's reported decimals; a later record of the
\* key changes totalQuantity, tokenCount and the members only, and leaves
\* name and decimals (and every other group) as they were.
C29_DecimalsSetOnce ==
    status = 200 =>
        /\ \A n \in 1..Len(assetData) :
               TurnKeepsFrame(n, GroupIndex(GroupsAfter(n - 1), GroupName(assetData[n])))
        /\ \A j \in 1..Len(sortedAssets) :
               sortedAssets[j].decimals =
                   getDecimalsForAsset(sortedAssets[j].name,
                                       FirstOfKey(sortedAssets[j].name).decimals)

\* three Gold records reporting 2, 6 and 2 decimals: one group, decimals 2
C29_Witness ==
    /\ pc = "done" /\ status = 200
    /\ Len(assetData) = 3
    /\ \A i \in 1..3 : GroupName(assetData[i]) = "Gold"
    /\ assetData[1].decimals = Num(2) /\ assetData[2].decimals = Num(6)
    /\ Len(sortedAssets) = 1
    /\ sortedAssets[1].decimals = Num(2)
    /\ sortedAssets[1].tokenCount = 3

====
